---- MODULE Spec2Model ----
(***************************************************************************)
(* Prediction-and-ranking engine of the college predictor API              *)
(* (src/index.js, the service defined from line 1346 on): the probability  *)
(* estimator, the rank projector and confidence scorer, the cutoff         *)
(* aggregator and the recommendation ranker of POST /filter.               *)
(*                                                                         *)
(* Numbers.  Ranks are integers.  Probabilities are kept in thousandths    *)
(* (980 is 0.98), which is the grid toFixed(3) produces.  The JavaScript   *)
(* doubles of the projection and of the standard deviation are replaced by *)
(* exact rational arithmetic on integers; Math.exp is evaluated through a  *)
(* table of logarithms (LnTable) that is exact to 10^-8 in the exponent.   *)
(* A double that lands within rounding error of a threshold or of a        *)
(* rounding boundary may differ from the exact value by one unit in the    *)
(* last place.                                                             *)
(*                                                                         *)
(* Specifications.  SpecEst: pairs of calls of getProbabilityAgainstTarget *)
(* with one target rank.  SpecPred: one call of calculatePredictionDetails.*)
(* SpecAgg: the aggregation of the raw history of one ProgramKey.          *)
(* SpecRank: the category assignment and the sort of the candidate rows of *)
(* one request, for two orders in which storage may return them.           *)
(* SpecFilter: two requests to POST /filter that interleave at their       *)
(* awaits, with the Redis store they share and a storage that does not     *)
(* change; every cache call may find the client not ready or throw, every  *)
(* storage query may throw.  Cache entries do not expire within a          *)
(* behaviour.  SpecFilterLive: the same, with every awaited call settling. *)
(* SpecClass: one call of getInstituteType on a label.  SpecAnchor: the    *)
(* anchorRankForSort of two candidate ranks.  SpecTwoRuns: the prediction  *)
(* and the sort of the same candidate rows against two contents of the     *)
(* history table.                                                          *)
(***************************************************************************)
EXTENDS Integers, Sequences, FiniteSets

VARIABLES
    eTarget, eRank, eProb,          \* last call of getProbabilityAgainstTarget
    ePrevRank, ePrevProb,           \* the call before it, same targetRank
    pUserRank,                      \* calculatePredictionDetails: userRankInput
    pCutoffs,                       \* its historicalCutoffs array (sorted in place)
    pResult,                        \* the object it returned, NotCalled before
    aHistory,                       \* fullHistoryForProgram of one ProgramKey
    aSeries,                        \* latestRoundCutoffsPerYear built from it
    aDone,                          \* the aggregation loop has run
    rUserRank,                      \* userRankInt of the request, NULL if absent
    rRows, rRowsB,                  \* filteredData in two orders storage may return
    rOut, rOutB,                    \* filteredData after the sort, for each order
    rDone,                          \* the sort has run
    fBody,                          \* POST /filter: req.body of each request
    fPc,                            \* the await each request is suspended at
    fLocal,                         \* its userRankInt, effectiveYear, effectiveRound, filteredData;
                                    \* initialRows is initialResult.rows as the query returned it
    fRes,                           \* the responses sent on its res, in order
    fLog,                           \* the storage and cache calls it has made, with their outcome
    fCache,                         \* the Redis store: cache key -> cached response
    cValue, cType,                  \* getInstituteType: its argument and what it returned
    nUserRank, nAnchorRank,         \* a candidate rank and its anchorRankForSort
    nPrevUserRank, nPrevAnchorRank  \* the same for a smaller candidate rank

estVars == <<eTarget, eRank, eProb, ePrevRank, ePrevProb>>
predVars == <<pUserRank, pCutoffs, pResult>>
aggVars == <<aHistory, aSeries, aDone>>
rankVars == <<rUserRank, rRows, rRowsB, rOut, rOutB, rDone>>
filterVars == <<fBody, fPc, fLocal, fRes, fLog, fCache>>
classVars == <<cValue, cType>>
anchorVars == <<nUserRank, nAnchorRank, nPrevUserRank, nPrevAnchorRank>>
vars == <<estVars, predVars, aggVars, rankVars, filterVars, classVars, anchorVars>>

\* the value of a field that is null (no call yet, SQL NULL)
NULL == 0 - 1

Max(a, b) == IF a >= b THEN a ELSE b
Min(a, b) == IF a <= b THEN a ELSE b
Abs(a) == IF a < 0 THEN 0 - a ELSE a

RECURSIVE DecPow(_)
DecPow(n) == IF n = 0 THEN 1 ELSE 10 * DecPow(n - 1)

(***************************************************************************)
(* Math.exp.  LnTable[q - 10], q in 11..900, is floor(10^8 * ln(900 /      *)
(* (q - 0.5))): 0.90 * exp(-x) rounds (toFixed(3)) to at least q           *)
(* thousandths exactly when x <= ln(900 / (q - 0.5)).                      *)
(***************************************************************************)
LnTable ==
  <<
     445101950, 436004772, 427666611, 419970507, 412824611, 406155473, 399903438, 394019388,
     388462403, 383198029, 378196987, 373434182, 368887945, 364539434, 360372164, 356371631,
     352525003, 348820875, 345249067, 341800449, 338466807, 335240721, 332115467, 329084932,
     326143543, 323286206, 320508250, 317805383, 315173652, 312609409, 310109278, 307670133,
     305289068, 302963382, 300690557, 298468243, 296294245, 294166505, 292083096, 290042209,
     288042142, 286081295, 284158159, 282271310, 280419406, 278601174, 276815412, 275060981,
     273336800, 271641845, 269975139, 268335758, 266722820, 265135485, 263572953, 262034462,
     260519281, 259026716, 257556101, 256106801, 254678205, 253269731, 251880820, 250510935,
     249159563, 247826210, 246510402, 245211682, 243929613, 242663774, 241413757, 240179174,
     238959646, 237754813, 236564322, 235387838, 234225034, 233075596, 231939221, 230815613,
     229704491, 228605579, 227518611, 226443332, 225379492, 224326851, 223285175, 222254238,
     221233821, 220223711, 219223703, 218233596, 217253196, 216282315, 215320769, 214368381,
     213424977, 212490391, 211564459, 210647021, 209737924, 208837017, 207944154, 207059192,
     206181994, 205312423, 204450349, 203595642, 202748180, 201907839, 201074501, 200248050,
     199428373, 198615360, 197808904, 197008900, 196215245, 195427839, 194646585, 193871388,
     193102153, 192338791, 191581211, 190829328, 190083056, 189342312, 188607014, 187877084,
     187152443, 186433016, 185718727, 185009504, 184305276, 183605972, 182911525, 182221867,
     181536933, 180856658, 180180980, 179509837, 178843167, 178180913, 177523016, 176869419,
     176220066, 175574903, 174933875, 174296930, 173664017, 173035084, 172410082, 171788962,
     171171676, 170558177, 169948419, 169342356, 168739945, 168141141, 167545901, 166954183,
     166365946, 165781149, 165199752, 164621716, 164047002, 163475572, 162907388, 162342415,
     161780616, 161221955, 160666398, 160113910, 159564459, 159018009, 158474529, 157933988,
     157396352, 156861591, 156329675, 155800573, 155274256, 154750695, 154229860, 153711725,
     153196260, 152683438, 152173233, 151665617, 151160566, 150658052, 150158051, 149660538,
     149165487, 148672875, 148182678, 147694872, 147209435, 146726342, 146245572, 145767102,
     145290911, 144816976, 144345277, 143875793, 143408502, 142943385, 142480421, 142019591,
     141560874, 141104253, 140649706, 140197217, 139746766, 139298334, 138851905, 138407460,
     137964981, 137524452, 137085855, 136649173, 136214390, 135781488, 135350453, 134921268,
     134493917, 134068384, 133644655, 133222713, 132802545, 132384134, 131967467, 131552529,
     131139305, 130727782, 130317945, 129909781, 129503276, 129098418, 128695191, 128293584,
     127893584, 127495177, 127098351, 126703094, 126309392, 125917235, 125526609, 125137504,
     124749906, 124363806, 123979190, 123596047, 123214368, 122834139, 122455351, 122077992,
     121702051, 121327519, 120954384, 120582637, 120212266, 119843262, 119475614, 119109314,
     118744350, 118380713, 118018394, 117657383, 117297670, 116939247, 116582103, 116226231,
     115871621, 115518264, 115166150, 114815273, 114465622, 114117190, 113769967, 113423946,
     113079118, 112735475, 112393009, 112051712, 111711576, 111372592, 111034754, 110698053,
     110362483, 110028034, 109694700, 109362474, 109031348, 108701315, 108372367, 108044498,
     107717700, 107391967, 107067291, 106743667, 106421086, 106099542, 105779029, 105459540,
     105141068, 104823608, 104507152, 104191694, 103877228, 103563748, 103251248, 102939721,
     102629162, 102319564, 102010922, 101703230, 101396481, 101090670, 100785792, 100481840,
     100178810, 99876695, 99575490, 99275189, 98975788, 98677280, 98379661, 98082925,
     97787067, 97492081, 97197963, 96904708, 96612310, 96320765, 96030067, 95740212,
     95451194, 95163009, 94875653, 94589120, 94303405, 94018505, 93734414, 93451127,
     93168641, 92886951, 92606052, 92325940, 92046610, 91768058, 91490280, 91213272,
     90937028, 90661546, 90386821, 90112848, 89839624, 89567144, 89295405, 89024402,
     88754131, 88484589, 88215772, 87947675, 87680296, 87413629, 87147671, 86882419,
     86617869, 86354016, 86090858, 85828391, 85566611, 85305514, 85045097, 84785357,
     84526289, 84267891, 84010159, 83753089, 83496679, 83240924, 82985822, 82731369,
     82477562, 82224397, 81971872, 81719982, 81468726, 81218099, 80968099, 80718722,
     80469966, 80221827, 79974302, 79727388, 79481083, 79235383, 78990284, 78745786,
     78501883, 78258574, 78015855, 77773724, 77532178, 77291214, 77050830, 76811021,
     76571787, 76333123, 76095028, 75857498, 75620531, 75384124, 75148275, 74912981,
     74678239, 74444047, 74210402, 73977302, 73744743, 73512725, 73281243, 73050296,
     72819881, 72589996, 72360638, 72131805, 71903495, 71675704, 71448431, 71221674,
     70995429, 70769696, 70544470, 70319751, 70095536, 69871822, 69648608, 69425890,
     69203668, 68981939, 68760700, 68539949, 68319684, 68099904, 67880606, 67661787,
     67443447, 67225582, 67008190, 66791270, 66574820, 66358837, 66143320, 65928266,
     65713674, 65499541, 65285866, 65072646, 64859880, 64647566, 64435701, 64224285,
     64013314, 63802788, 63592704, 63383060, 63173855, 62965086, 62756753, 62548853,
     62341384, 62134344, 61927733, 61721547, 61515786, 61310447, 61105529, 60901030,
     60696948, 60493282, 60290030, 60087190, 59884761, 59682740, 59481127, 59279920,
     59079117, 58878716, 58678716, 58479115, 58279912, 58081105, 57882692, 57684672,
     57487043, 57289805, 57092954, 56896491, 56700412, 56504717, 56309405, 56114473,
     55919920, 55725745, 55531947, 55338523, 55145473, 54952795, 54760487, 54568548,
     54376977, 54185773, 53994933, 53804457, 53614343, 53424589, 53235195, 53046159,
     52857480, 52669156, 52481186, 52293569, 52106303, 51919387, 51732820, 51546600,
     51360726, 51175197, 50990012, 50805169, 50620667, 50436505, 50252682, 50069195,
     49886045, 49703230, 49520748, 49338598, 49156780, 48975292, 48794132, 48613301,
     48432795, 48252615, 48072759, 47893225, 47714014, 47535123, 47356552, 47178298,
     47000362, 46822742, 46645437, 46468446, 46291768, 46115401, 45939345, 45763598,
     45588159, 45413028, 45238202, 45063682, 44889466, 44715553, 44541942, 44368632,
     44195621, 44022910, 43850496, 43678379, 43506557, 43335031, 43163798, 42992858,
     42822209, 42651851, 42481783, 42312004, 42142512, 41973307, 41804389, 41635754,
     41467404, 41299337, 41131552, 40964047, 40796823, 40629878, 40463212, 40296822,
     40130709, 39964872, 39799309, 39634020, 39469003, 39304258, 39139785, 38975581,
     38811646, 38647980, 38484582, 38321449, 38158583, 37995981, 37833644, 37671569,
     37509757, 37348206, 37186915, 37025885, 36865113, 36704599, 36544343, 36384343,
     36224598, 36065109, 35905873, 35746890, 35588160, 35429682, 35271454, 35113476,
     34955747, 34798267, 34641034, 34484048, 34327308, 34170814, 34014564, 33858557,
     33702794, 33547273, 33391994, 33236955, 33082156, 32927596, 32773275, 32619192,
     32465346, 32311736, 32158362, 32005223, 31852317, 31699646, 31547206, 31394999,
     31243024, 31091279, 30939763, 30788477, 30637420, 30486590, 30335988, 30185612,
     30035462, 29885537, 29735836, 29586359, 29437106, 29288074, 29139265, 28990676,
     28842308, 28694160, 28546231, 28398521, 28251028, 28103752, 27956694, 27809851,
     27663223, 27516810, 27370611, 27224626, 27078853, 26933293, 26787944, 26642806,
     26497879, 26353161, 26208652, 26064352, 25920260, 25776375, 25632697, 25489224,
     25345958, 25202896, 25060039, 24917386, 24774936, 24632688, 24490643, 24348799,
     24207156, 24065713, 23924470, 23783426, 23642581, 23501934, 23361485, 23221232,
     23081176, 22941316, 22801651, 22662181, 22522905, 22383823, 22244934, 22106238,
     21967734, 21829421, 21691300, 21553369, 21415628, 21278076, 21140713, 21003539,
     20866553, 20729754, 20593142, 20456716, 20320476, 20184422, 20048552, 19912867,
     19777366, 19642048, 19506912, 19371960, 19237189, 19102599, 18968191, 18833962,
     18699914, 18566045, 18432355, 18298844, 18165511, 18032355, 17899376, 17766574,
     17633948, 17501498, 17369223, 17237122, 17105196, 16973444, 16841865, 16710459,
     16579225, 16448163, 16317273, 16186554, 16056006, 15925628, 15795420, 15665381,
     15535510, 15405809, 15276275, 15146909, 15017710, 14888678, 14759812, 14631111,
     14502577, 14374207, 14246002, 14117961, 13990084, 13862370, 13734819, 13607430,
     13480204, 13353139, 13226235, 13099492, 12972910, 12846488, 12720225, 12594122,
     12468177, 12342391, 12216763, 12091292, 11965979, 11840823, 11715823, 11590979,
     11466290, 11341757, 11217379, 11093156, 10969086, 10845170, 10721408, 10597799,
     10474342, 10351037, 10227884, 10104883, 9982033, 9859334, 9736785, 9614386,
     9492136, 9370036, 9248085, 9126282, 9004628, 8883121, 8761762, 8640549,
     8519484, 8398565, 8277792, 8157165, 8036683, 7916346, 7796154, 7676106,
     7556202, 7436441, 7316824, 7197349, 7078018, 6958828, 6839781, 6720874,
     6602110, 6483486, 6365002, 6246659, 6128456, 6010392, 5892467, 5774682,
     5657035, 5539526, 5422155, 5304922, 5187826, 5070866, 4954044, 4837358,
     4720808, 4604393, 4488114, 4371970, 4255961, 4140086, 4024345, 3908738,
     3793265, 3677925, 3562717, 3447642, 3332700, 3217889, 3103210, 2988663,
     2874246, 2759961, 2645805, 2531780, 2417885, 2304119, 2190483, 2076976,
     1963597, 1850347, 1737224, 1624230, 1511363, 1398624, 1286011, 1173525,
     1061166, 948932, 836824, 724842, 612986, 501254, 389647, 278164,
     166805, 55570
  >>

\* floor(10^digits * num / den) by long division, for 0 <= num
RECURSIVE ScaledQuotient(_, _, _)
ScaledQuotient(num, den, digits) ==
    IF digits = 0 THEN num \div den
    ELSE (num \div den) * DecPow(digits) + ScaledQuotient((num % den) * 10, den, digits - 1)

\* does 0.90 * exp(-x) round to at least q thousandths, x8 = floor(10^8 * x)?
RoundsToAtLeast(q, x8) == x8 <= LnTable[q - 10]

\* the largest q in lo..hi with RoundsToAtLeast(q, x8), lo - 1 if there is
\* none; the predicate is antitone in q
RECURSIVE ExpSearch(_, _, _)
ExpSearch(lo, hi, x8) ==
    IF lo > hi THEN lo - 1
    ELSE LET mid == (lo + hi) \div 2
         IN  IF RoundsToAtLeast(mid, x8)
             THEN ExpSearch(mid + 1, hi, x8)
             ELSE ExpSearch(lo, mid - 1, x8)

\* mutant: the lower clamp at 0.05 in place of 0.01
DecayThousandths_HighFloor(num, den) ==
    IF num >= 5 * den THEN 50
    ELSE Max(50, ExpSearch(11, 900, ScaledQuotient(num, den, 8)))

\* mutant: the lower clamp Math.max(0.01, ...) left out
DecayThousandths_NoFloor(num, den) ==
    IF num >= 5 * den THEN 6
    ELSE ExpSearch(11, 900, ScaledQuotient(num, den, 8))

\* thousandths of max(0.01, min(0.90 * Math.exp(-num / den), 0.90)), toFixed(3);
\* 0.90 * exp(-5) < 0.0061, so an exponent of 5 or more is already the floor
DecayThousandths(num, den) ==
    IF num >= 5 * den THEN 10
    ELSE ExpSearch(11, 900, ScaledQuotient(num, den, 8))

\* k = Math.max(500, targetRank * k_factor), k_factor = 0.25, times 4
KTimes4(targetRank) == Max(4 * 500, targetRank)

ProbAtOrBelowTarget == 980
ProbFloor == 10

\* mutant: userRank < targetRank in place of userRank <= targetRank
getProbability_StrictlyBelow(userRank, targetRank) ==
    IF targetRank <= 0 THEN ProbFloor
    ELSE IF userRank < targetRank THEN ProbAtOrBelowTarget
    ELSE DecayThousandths(4 * (userRank - targetRank), KTimes4(targetRank))

\* mutant: a rank at or below the target is treated as certain (1.0)
getProbability_CertainBelow(userRank, targetRank) ==
    IF targetRank <= 0 THEN ProbFloor
    ELSE IF userRank <= targetRank THEN 1000
    ELSE DecayThousandths(4 * (userRank - targetRank), KTimes4(targetRank))

getProbabilityAgainstTarget(userRank, targetRank) ==
    IF targetRank <= 0 THEN ProbFloor
    ELSE IF userRank <= targetRank THEN ProbAtOrBelowTarget
    ELSE LET diff == userRank - targetRank
         IN  DecayThousandths(4 * diff, KTimes4(targetRank))

(***************************************************************************)
(* The estimator on its own: calls with sample target ranks and candidate  *)
(* ranks around them.                                                      *)
(***************************************************************************)
EstDense == 40
EstTargets == {1, 400, 1999, 2000, 2001, 8000, 40000}
EstDiffs == ((0 - 3) .. EstDense) \cup
            {0 - 300, 50, 51, 500, 1000, 2249, 2250, 2251, 2252, 2303, 10000, 45000}
EstRanks(target) == {r \in {target + d : d \in EstDiffs} : r > 0}

InitEst ==
    /\ eTarget = NULL /\ eRank = NULL /\ eProb = NULL
    /\ ePrevRank = NULL /\ ePrevProb = NULL

\* the first call of a pair: a target rank and a candidate rank
EstimateFirst ==
    /\ eTarget = NULL
    /\ \E t \in EstTargets : \E r \in EstRanks(t) :
        /\ eTarget' = t
        /\ eRank' = r
        /\ eProb' = getProbabilityAgainstTarget(r, t)
        /\ ePrevRank' = NULL
        /\ ePrevProb' = NULL
    /\ UNCHANGED <<predVars, aggVars, rankVars, filterVars, classVars, anchorVars>>

\* the second call of the pair: the same target rank, any candidate rank
EstimateAgain ==
    /\ eTarget # NULL
    /\ ePrevRank = NULL
    /\ \E r \in EstRanks(eTarget) :
        /\ eRank' = r
        /\ eProb' = getProbabilityAgainstTarget(r, eTarget)
        /\ ePrevRank' = eRank
        /\ ePrevProb' = eProb
        /\ UNCHANGED eTarget
    /\ UNCHANGED <<predVars, aggVars, rankVars, filterVars, classVars, anchorVars>>

\* pResult before calculatePredictionDetails has returned
NotCalled == [projectedRank |-> NULL, probability |-> NULL, confidence |-> "not called"]

\* no call of calculatePredictionDetails in this behaviour
InitPredIdle == pUserRank = NULL /\ pCutoffs = <<>> /\ pResult = NotCalled

\* no aggregation and no ranking in this behaviour
InitAggIdle == aHistory = <<>> /\ aSeries = <<>> /\ aDone = FALSE

InitRankIdle ==
    /\ rUserRank = NULL /\ rRows = <<>> /\ rRowsB = <<>>
    /\ rOut = <<>> /\ rOutB = <<>> /\ rDone = FALSE

\* no request to POST /filter in this behaviour
InitFilterIdle ==
    /\ fBody = <<>> /\ fPc = <<>> /\ fLocal = <<>>
    /\ fRes = <<>> /\ fLog = <<>> /\ fCache = <<>>

\* no call of getInstituteType outside a request in this behaviour
InitClassIdle == cValue = <<>> /\ cType = "not called"

\* no anchor computed outside a request in this behaviour
InitAnchorIdle ==
    /\ nUserRank = NULL /\ nAnchorRank = NULL
    /\ nPrevUserRank = NULL /\ nPrevAnchorRank = NULL

InitOthersIdle == InitClassIdle /\ InitAnchorIdle

NextEst == EstimateFirst \/ EstimateAgain

InitEstimator == InitEst /\ InitPredIdle /\ InitAggIdle /\ InitRankIdle /\ InitFilterIdle /\ InitOthersIdle

SpecEst == InitEstimator /\ [][NextEst]_vars

\* C1: a positive candidate rank at or below a positive projected rank gets
\* the probability 0.98 exactly.
C1_AtOrBelowTargetIs098 ==
    (eTarget # NULL /\ eRank > 0 /\ eTarget > 0 /\ eRank <= eTarget) => eProb = 980

C1_Witness == eTarget = 2000 /\ eRank = 2000 /\ eProb = 980

\* C2: for a fixed projected rank > 0 the probability does not increase as
\* the candidate rank increases (also across candidateRank = projectedRank),
\* and every value lies in [0.01, 0.99].
C2_NonIncreasingAndBounded ==
    /\ eTarget # NULL => (eProb >= 10 /\ eProb <= 990)
    /\ (ePrevRank # NULL /\ ePrevRank <= eRank) => ePrevProb >= eProb
    /\ (ePrevRank # NULL /\ ePrevRank >= eRank) => ePrevProb <= eProb

\* two calls on either side of the boundary diff = 0
C2_Witness ==
    /\ ePrevRank # NULL /\ ePrevRank = eTarget /\ eRank = eTarget + 1
    /\ ePrevProb = 980 /\ eProb < 980

\* two calls with candidate ranks above the same positive projected rank,
\* the second rank the larger
BothAboveTarget ==
    ePrevRank # NULL /\ eTarget > 0 /\ eTarget < ePrevRank /\ ePrevRank < eRank

\* C20 as stated: for r1 < r2 both greater than projectedRank,
\* probability(r1) > probability(r2).
C20_AsStated == BothAboveTarget => ePrevProb > eProb

\* C20 amended: for r1 < r2 both greater than projectedRank,
\* probability(r1) >= probability(r2), and probability(r1) > probability(r2)
\* when probability(r1) > 0.01 and r2 - r1 >= k / 8, k = max(500,
\* 0.25 * projectedRank).
C20_StrictAcrossSteps ==
    BothAboveTarget =>
        /\ ePrevProb >= eProb
        /\ (ePrevProb > 10 /\ 32 * (eRank - ePrevRank) >= Max(2000, eTarget))
              => ePrevProb > eProb

\* one and 2249 above the projected rank 40000 (k = 10000)
C20_Witness ==
    /\ eTarget = 40000 /\ ePrevRank = 40001 /\ eRank = 42249
    /\ ePrevProb = 900 /\ eProb > 10 /\ eProb < 900

(***************************************************************************)
(* Array.prototype.sort with a comparator: a stable sort.  cmp names the   *)
(* comparator function and Before(cmp, a, b) is "the comparator returns a  *)
(* negative number for (a, b)".                                            *)
(***************************************************************************)
\* (a, b) => b.year - a.year
YearDescending(a, b) == b.year - a.year < 0

\* (a, b) => { if (b.year !== a.year) return b.year - a.year; return b.round - a.round; }
YearRoundDescending(a, b) ==
    IF b.year # a.year THEN b.year - a.year < 0 ELSE b.round - a.round < 0

(***************************************************************************)
(* The comparators of the recommendation ranker (lines 1737-1790).  A row  *)
(* is a record of the columns of the candidate query plus                  *)
(* instituteCategory.  String.prototype.localeCompare is the order of the  *)
(* Collation sequence.                                                     *)
(***************************************************************************)
IITB == "Indian Institute of Technology Bombay"
IITD == "Indian Institute of Technology Delhi"
NITT == "National Institute of Technology Tiruchirappalli"
PEC == "Punjab Engineering College Chandigarh"

Collation ==
    <<"", "Computer Science and Engineering", "Electrical Engineering",
      IITB, IITD, NITT, PEC, "X", "X|Y", "Y|Z", "Z">>

CollationIndex(str) == CHOOSE i \in 1..Len(Collation) : Collation[i] = str

\* a.localeCompare(b), its sign
LocaleCompare(a, b) == CollationIndex(a) - CollationIndex(b)

\* typeOrder[category] || typeOrder['UNKNOWN']
TypeOrder(category) ==
    CASE category = "IIT" -> 1
      [] category = "NIT" -> 2
      [] category = "IIIT" -> 3
      [] category = "GFTI" -> 4
      [] OTHER -> 5

\* Infinity, above every rank
Infinity == 1073741824

\* a["Closing Rank"] === null || isNaN(...) ? Infinity : Number(a["Closing Rank"])
ClosingOrInfinity(row) == IF row.ClosingRank = NULL THEN Infinity ELSE row.ClosingRank

\* Group 1 (achievable) or Group 2 (aspirational)
AnchorGroup(row, anchorRankForSort) ==
    IF ClosingOrInfinity(row) >= anchorRankForSort THEN 1 ELSE 2

\* mutant: inside a group the higher probability first
AnchorSortBefore_ByProbability(anchorRankForSort, a, b) ==
    LET groupA == AnchorGroup(a, anchorRankForSort)
        groupB == AnchorGroup(b, anchorRankForSort)
    IN  IF groupA # groupB THEN groupA - groupB < 0
        ELSE b.probability - a.probability < 0

\* mutant: the closing rank compared before the institute category
AnchorSortBefore_ClosingFirst(anchorRankForSort, a, b) ==
    LET crA == ClosingOrInfinity(a)
        crB == ClosingOrInfinity(b)
        groupA == AnchorGroup(a, anchorRankForSort)
        groupB == AnchorGroup(b, anchorRankForSort)
        typeAOrder == TypeOrder(a.instituteCategory)
        typeBOrder == TypeOrder(b.instituteCategory)
    IN  IF groupA # groupB THEN groupA - groupB < 0
        ELSE IF crA # crB THEN crA - crB < 0
        ELSE IF typeAOrder # typeBOrder THEN typeAOrder - typeBOrder < 0
        ELSE LocaleCompare(a.Institute, b.Institute) < 0

\* the comparator of lines 1742-1771 returns a negative number
AnchorSortBefore(anchorRankForSort, a, b) ==
    LET crA == ClosingOrInfinity(a)
        crB == ClosingOrInfinity(b)
        groupA == AnchorGroup(a, anchorRankForSort)
        groupB == AnchorGroup(b, anchorRankForSort)
        typeAOrder == TypeOrder(a.instituteCategory)
        typeBOrder == TypeOrder(b.instituteCategory)
    IN  IF groupA # groupB THEN groupA - groupB < 0
        ELSE IF typeAOrder # typeBOrder THEN typeAOrder - typeBOrder < 0
        ELSE IF crA # crB THEN crA - crB < 0
        ELSE LocaleCompare(a.Institute, b.Institute) < 0

\* mutant: the closing rank compared before the institute name
NoRankSortBefore_ByClosingRank(a, b) ==
    LET typeAOrder == TypeOrder(a.instituteCategory)
        typeBOrder == TypeOrder(b.instituteCategory)
    IN  IF typeAOrder # typeBOrder THEN typeAOrder - typeBOrder < 0
        ELSE IF ClosingOrInfinity(a) # ClosingOrInfinity(b)
        THEN ClosingOrInfinity(a) - ClosingOrInfinity(b) < 0
        ELSE IF LocaleCompare(a.Institute, b.Institute) # 0
        THEN LocaleCompare(a.Institute, b.Institute) < 0
        ELSE LocaleCompare(a.Program, b.Program) < 0

\* the comparator of lines 1777-1789 returns a negative number
NoRankSortBefore(a, b) ==
    LET typeAOrder == TypeOrder(a.instituteCategory)
        typeBOrder == TypeOrder(b.instituteCategory)
    IN  IF typeAOrder # typeBOrder THEN typeAOrder - typeBOrder < 0
        ELSE IF a.Year # b.Year THEN b.Year - a.Year < 0
        ELSE IF a.Round # b.Round THEN b.Round - a.Round < 0
        ELSE IF LocaleCompare(a.Institute, b.Institute) # 0
        THEN LocaleCompare(a.Institute, b.Institute) < 0
        ELSE LocaleCompare(a.Program, b.Program) < 0

Before(cmp, a, b) ==
    CASE cmp.kind = "year" -> YearDescending(a, b)
      [] cmp.kind = "yearRound" -> YearRoundDescending(a, b)
      [] cmp.kind = "anchor" -> AnchorSortBefore(cmp.anchor, a, b)
      [] cmp.kind = "noRank" -> NoRankSortBefore(a, b)

RECURSIVE InsertSorted(_, _, _)
InsertSorted(x, t, cmp) ==
    IF t = <<>> THEN <<x>>
    ELSE IF Before(cmp, x, Head(t)) THEN <<x>> \o t
    ELSE <<Head(t)>> \o InsertSorted(x, Tail(t), cmp)

RECURSIVE StableSort(_, _)
StableSort(s, cmp) ==
    IF s = <<>> THEN <<>>
    ELSE InsertSorted(s[Len(s)], StableSort(SubSeq(s, 1, Len(s) - 1), cmp), cmp)

RECURSIVE SumSeq(_)
SumSeq(s) == IF s = <<>> THEN 0 ELSE Head(s) + SumSeq(Tail(s))

RECURSIVE GCD(_, _)
GCD(a, b) == IF b = 0 THEN a ELSE GCD(b, a % b)

ValidRank(r) == r # NULL

\* the elements of s that are valid ranks, in order: filter(r => r !== null && !isNaN(r))
RECURSIVE ValidRanksOf(_)
ValidRanksOf(s) ==
    IF s = <<>> THEN <<>>
    ELSE IF ValidRank(Head(s)) THEN <<Head(s)>> \o ValidRanksOf(Tail(s))
    ELSE ValidRanksOf(Tail(s))

(***************************************************************************)
(* calculateStandardDeviation(values) < (tn / td) * projectedRank, decided *)
(* on the squares: with n values, n^2 * variance = n * sum(b^2) - sum(b)^2 *)
(***************************************************************************)
ScaledVariance(values) ==
    LET n == Len(values)
    IN  n * SumSeq([i \in 1..n |-> values[i] * values[i]]) - SumSeq(values) * SumSeq(values)

RelStdDevBelow(values, projectedRank, tn, td) ==
    LET n == Len(values)
        a == tn \div GCD(tn, td)
        b == td \div GCD(tn, td)
    IN  b * b * ScaledVariance(values) < a * a * n * n * projectedRank * projectedRank

(***************************************************************************)
(* calculatePredictionDetails                                              *)
(***************************************************************************)
\* recencyWeights = [1.0, 0.85, 0.7, 0.55, 0.4], in hundredths
recencyWeights == <<100, 85, 70, 55, 40>>

\* const weight = recencyWeights[index] || 0.3
Weight(index) ==
    IF index <= Len(recencyWeights) THEN recencyWeights[index] ELSE 30

\* the weight the forEach of the slice gives entry i
EntryWeight(cutoffs, i) ==
    IF ValidRank(cutoffs[i].closeRank) THEN Weight(i) ELSE 0

\* mutant: the forEach run over the whole array, without slice(0, 5)
SliceLen_NoSlice(cutoffs) == Len(cutoffs)

\* the length of historicalCutoffs.slice(0, recencyWeights.length)
SliceLen(cutoffs) == Min(Len(cutoffs), Len(recencyWeights))

\* weightedRankSum and totalWeight, both in hundredths
WeightedRankSum(cutoffs) ==
    SumSeq([i \in 1..SliceLen(cutoffs) |->
              IF ValidRank(cutoffs[i].closeRank)
              THEN cutoffs[i].closeRank * Weight(i) ELSE 0])

TotalWeight(cutoffs) ==
    SumSeq([i \in 1..SliceLen(cutoffs) |-> EntryWeight(cutoffs, i)])

\* mutant: the momentum step left out
MomentumFraction_None(cutoffs) == <<0, 1>>

\* mutant: relativeChange * 0.5 used without Math.max / Math.min against
\* maxAdjustmentRatio
MomentumFraction_Unclamped(cutoffs) ==
    IF Len(cutoffs) < 2 THEN <<0, 1>>
    ELSE LET latest == cutoffs[1].closeRank
             previous == cutoffs[2].closeRank
         IN  IF ~(latest # NULL /\ previous # NULL /\ previous > 0) THEN <<0, 1>>
             ELSE LET change == latest - previous
                      g == GCD(Abs(change), 2 * previous)
                  IN  IF ~(100 * Abs(change) > 3 * previous) THEN <<0, 1>>
                      ELSE <<change \div g, (2 * previous) \div g>>

\* the momentum factor adjustment / projectedClosingRank as a fraction
\* <<numerator, denominator>>, <<0, 1>> when no adjustment is made
MomentumFraction(cutoffs) ==
    IF Len(cutoffs) < 2 THEN <<0, 1>>
    ELSE LET latest == cutoffs[1].closeRank
             previous == cutoffs[2].closeRank
         IN  IF ~(latest # NULL /\ previous # NULL /\ previous > 0) THEN <<0, 1>>
             ELSE LET change == latest - previous
                      g == GCD(Abs(change), 2 * previous)
                  IN  \* Math.abs(relativeChange) > 0.03
                      IF ~(100 * Abs(change) > 3 * previous) THEN <<0, 1>>
                      \* Math.max(-maxAdjustmentRatio, relativeChange * 0.5)
                      ELSE IF change < 0
                      THEN IF 10 * change >= 0 - 2 * previous
                           THEN <<change \div g, (2 * previous) \div g>>
                           ELSE <<0 - 1, 10>>
                      \* Math.min(maxAdjustmentRatio, relativeChange * 0.5)
                      ELSE IF 10 * change <= 2 * previous
                           THEN <<change \div g, (2 * previous) \div g>>
                           ELSE <<1, 10>>

\* Math.round(a / b) for a >= 0, b > 0: floor(a / b + 1/2)
RoundDiv(a, b) == (2 * a + b) \div (2 * b)

\* projectedClosingRank after Math.max(1, Math.round(...))
ProjectedClosingRank(cutoffs) ==
    LET f == MomentumFraction(cutoffs)
    IN  Max(1, RoundDiv(WeightedRankSum(cutoffs) * (f[2] + f[1]),
                        TotalWeight(cutoffs) * f[2]))

\* the thousandths p for which (p / 1000).toFixed(2) rounds a last digit 5
\* up: the double nearest to p / 1000 is at or above it
HalfRoundsUp ==
    {25, 35, 55, 65, 85, 95, 115, 125, 135, 165, 195, 225, 255, 265, 275,
     315, 325, 335, 375, 385, 395, 405, 445, 455, 465, 505, 515, 525, 535,
     545, 555, 625, 635, 645, 655, 665, 675, 685, 755, 765, 775, 785, 795,
     805, 875, 885, 895}

\* +(finalProbability.toFixed(2)), still in thousandths
ToFixed2(p) ==
    LET low == p - (p % 10)
    IN  IF p % 10 > 5 \/ (p % 10 = 5 /\ p \in HalfRoundsUp) THEN low + 10 ELSE low

\* mutant: the first row of the table taken from 3 points on
ConfidenceLabel_FromThree(ranks, projectedRank) ==
    LET nPoints == Len(ranks)
    IN  IF nPoints >= 3
        THEN IF RelStdDevBelow(ranks, projectedRank, 1, 10) THEN "very high"
             ELSE IF RelStdDevBelow(ranks, projectedRank, 3, 20) THEN "high"
             ELSE IF RelStdDevBelow(ranks, projectedRank, 1, 4) THEN "medium"
             ELSE "low"
        ELSE IF nPoints = 2
        THEN IF RelStdDevBelow(ranks, projectedRank, 1, 5) THEN "medium"
             ELSE "low"
        ELSE "very low"

\* mutant: the 3-point row with the 4-point row's medium threshold (0.25)
ConfidenceLabel_WideMedium(ranks, projectedRank) ==
    LET nPoints == Len(ranks)
    IN  IF nPoints >= 4
        THEN IF RelStdDevBelow(ranks, projectedRank, 1, 10) THEN "very high"
             ELSE IF RelStdDevBelow(ranks, projectedRank, 3, 20) THEN "high"
             ELSE IF RelStdDevBelow(ranks, projectedRank, 1, 4) THEN "medium"
             ELSE "low"
        ELSE IF nPoints = 3
        THEN IF RelStdDevBelow(ranks, projectedRank, 3, 20) THEN "high"
             ELSE IF RelStdDevBelow(ranks, projectedRank, 1, 4) THEN "medium"
             ELSE "low"
        ELSE IF nPoints = 2
        THEN IF RelStdDevBelow(ranks, projectedRank, 1, 5) THEN "medium"
             ELSE "low"
        ELSE "very low"

\* mutant: the final else left out, so that one point keeps the initial "low"
ConfidenceLabel_DefaultLow(ranks, projectedRank) ==
    LET nPoints == Len(ranks)
    IN  IF nPoints >= 4
        THEN IF RelStdDevBelow(ranks, projectedRank, 1, 10) THEN "very high"
             ELSE IF RelStdDevBelow(ranks, projectedRank, 3, 20) THEN "high"
             ELSE IF RelStdDevBelow(ranks, projectedRank, 1, 4) THEN "medium"
             ELSE "low"
        ELSE IF nPoints = 3
        THEN IF RelStdDevBelow(ranks, projectedRank, 3, 20) THEN "high"
             ELSE IF RelStdDevBelow(ranks, projectedRank, 1, 5) THEN "medium"
             ELSE "low"
        ELSE IF nPoints = 2
        THEN IF RelStdDevBelow(ranks, projectedRank, 1, 5) THEN "medium"
             ELSE "low"
        ELSE "low"

ConfidenceLabel(ranks, projectedRank) ==
    LET nPoints == Len(ranks)
    IN  IF nPoints >= 4
        THEN IF RelStdDevBelow(ranks, projectedRank, 1, 10) THEN "very high"
             ELSE IF RelStdDevBelow(ranks, projectedRank, 3, 20) THEN "high"
             ELSE IF RelStdDevBelow(ranks, projectedRank, 1, 4) THEN "medium"
             ELSE "low"
        ELSE IF nPoints = 3
        THEN IF RelStdDevBelow(ranks, projectedRank, 3, 20) THEN "high"
             ELSE IF RelStdDevBelow(ranks, projectedRank, 1, 5) THEN "medium"
             ELSE "low"
        ELSE IF nPoints = 2
        THEN IF RelStdDevBelow(ranks, projectedRank, 1, 5) THEN "medium"
             ELSE "low"
        ELSE "very low"

\* historicalCutoffs after historicalCutoffs.sort((a, b) => b.year - a.year)
CutoffsSorted(historicalCutoffs) == StableSort(historicalCutoffs, [kind |-> "year"])

\* historicalCutoffs.map(h => h.closeRank).filter(r => r !== null && !isNaN(r))
RanksForConfidence(cutoffs) ==
    ValidRanksOf([i \in 1..Len(cutoffs) |-> cutoffs[i].closeRank])

\* mutant: the early return for an empty array left out
calculatePrediction_NoEmptyCheck(userRank, historicalCutoffs) ==
    [projectedRank |-> NULL, probability |-> 0, confidence |-> "very low"]

calculatePredictionDetails(userRank, historicalCutoffs) ==
    IF Len(historicalCutoffs) = 0
    THEN [projectedRank |-> NULL, probability |-> 0, confidence |-> "none"]
    ELSE LET cutoffs == CutoffsSorted(historicalCutoffs)
         IN  IF TotalWeight(cutoffs) = 0
             THEN [projectedRank |-> NULL, probability |-> 0, confidence |-> "very low"]
             ELSE LET projected == ProjectedClosingRank(cutoffs)
                      finalProbability == getProbabilityAgainstTarget(userRank, projected)
                  IN  [projectedRank |-> projected,
                       probability |-> ToFixed2(finalProbability),
                       confidence |-> ConfidenceLabel(RanksForConfidence(cutoffs), projected)]

(***************************************************************************)
(* The prediction on its own: one call with a candidate rank and a series  *)
(* as its only caller (POST /filter, line 1728) passes it: at most one     *)
(* entry per year, most recent year first, every closeRank an integer (the *)
(* aggregation loop drops the null ones, line 1723).                       *)
(***************************************************************************)
MaxSeriesLen == 6
LatestYear == 2024
CloseRanks == {0, 100, 120, 200}
PredUserRanks == {90, 150}

SeriesOfLen(n) ==
    {[i \in 1..n |-> [year |-> LatestYear - i, round |-> 1, closeRank |-> c[i]]] :
        c \in [1..n -> CloseRanks]}

\* the worked calls: <<candidate rank, closing ranks from 2023 backwards>>
ScenarioA == <<5000, <<4000, 4500, 5200>>>>
ScenarioB == <<100000, <<20000>>>>
Scenarios == {ScenarioA, ScenarioB}

\* calls whose two most recent closing ranks differ by 3% and by 4%
ThresholdCalls ==
    {<<150, <<103, 100>>>>, <<150, <<104, 100>>>>, <<150, <<97, 100>>>>,
     <<150, <<96, 100, 100>>>>}

ScenarioSeries(sc) ==
    [i \in 1..Len(sc[2]) |-> [year |-> LatestYear - i, round |-> 1, closeRank |-> sc[2][i]]]

\* the arguments of the call
InitPred ==
    /\ \/ /\ pUserRank \in PredUserRanks
          /\ \E n \in 0..MaxSeriesLen : pCutoffs \in SeriesOfLen(n)
       \/ \E sc \in Scenarios \cup ThresholdCalls :
             /\ pUserRank = sc[1]
             /\ pCutoffs = ScenarioSeries(sc)
    /\ pResult = NotCalled

CallPrediction ==
    /\ pResult = NotCalled
    /\ pUserRank # NULL
    /\ pCutoffs' = CutoffsSorted(pCutoffs)
    /\ pResult' = calculatePredictionDetails(pUserRank, pCutoffs)
    /\ UNCHANGED <<pUserRank, estVars, aggVars, rankVars, filterVars, classVars, anchorVars>>

NextPred == CallPrediction

InitPrediction == InitEst /\ InitPred /\ InitAggIdle /\ InitRankIdle /\ InitFilterIdle /\ InitOthersIdle

SpecPred == InitPrediction /\ [][NextPred]_vars

Confidences == {"none", "very low", "low", "medium", "high", "very high"}

\* the number of valid closing-rank points of the series of the call
NPoints == Len(RanksForConfidence(pCutoffs))

\* C3 as stated: every result, also for an empty series, has probability in
\* [0.01, 0.99] and a confidence label of the six.
C3_AsStated ==
    pResult # NotCalled =>
        /\ pResult.probability >= 10 /\ pResult.probability <= 990
        /\ pResult.confidence \in Confidences

\* C3 amended: the confidence is always one of the six labels; the
\* probability is in [0.01, 0.99] for every series with a valid closing rank
\* among its 5 most recent entries and is exactly 0, with projectedRank null,
\* for the empty series.
C3_ProbabilityRange ==
    pResult # NotCalled =>
        /\ pResult.confidence \in Confidences
        /\ TotalWeight(pCutoffs) > 0 =>
              /\ pResult.projectedRank # NULL
              /\ pResult.probability >= 10 /\ pResult.probability <= 990
        /\ Len(pCutoffs) = 0 =>
              (pResult.probability = 0 /\ pResult.projectedRank = NULL)
        /\ Len(pCutoffs) > 0 => TotalWeight(pCutoffs) > 0

C3_Witness ==
    /\ pResult # NotCalled /\ pUserRank = 150 /\ Len(pCutoffs) = 3
    /\ pResult.projectedRank # NULL
    /\ pResult.probability > 10 /\ pResult.probability < 900

\* C4: with zero historical points the result is projectedRank = null,
\* probability = 0, confidence = "none", for every candidate rank.
C4_EmptySeries ==
    (pResult # NotCalled /\ Len(pCutoffs) = 0) =>
        pResult = [projectedRank |-> NULL, probability |-> 0, confidence |-> "none"]

C4_Witness == pResult # NotCalled /\ pUserRank = 150 /\ Len(pCutoffs) = 0 /\ pResult.confidence = "none"

\* C9: the confidence is never "very high" when fewer than 4 closing ranks
\* of the series are valid.
C9_VeryHighNeedsFourPoints ==
    (pResult # NotCalled /\ NPoints < 4) => pResult.confidence # "very high"

\* a series of 3 valid points of small dispersion, rated "high"
C9_Witness ==
    /\ pResult # NotCalled /\ NPoints = 3 /\ Len(pCutoffs) = 3
    /\ RelStdDevBelow(RanksForConfidence(pCutoffs), pResult.projectedRank, 1, 10)
    /\ pResult.confidence = "high"

\* r = stddev(closingRanks) / projectedRank of the call is below tn / td
RBelow(tn, td) ==
    RelStdDevBelow(RanksForConfidence(pCutoffs), pResult.projectedRank, tn, td)

\* C10: the label equals the canonical table for every (nPoints, r):
\* nPoints >= 4: very high if r < 0.10, high if r < 0.15, medium if r < 0.25,
\* else low; nPoints = 3: high if r < 0.15, medium if r < 0.20, else low;
\* nPoints = 2: medium if r < 0.20, else low; nPoints = 1: very low;
\* nPoints = 0: none.
C10_CanonicalTable ==
    pResult # NotCalled =>
        LET c == pResult.confidence
        IN  /\ NPoints = 0 => c = "none"
            /\ NPoints = 1 => c = "very low"
            /\ NPoints = 2 => c = (IF RBelow(20, 100) THEN "medium" ELSE "low")
            /\ NPoints = 3 =>
                  c = (IF RBelow(15, 100) THEN "high"
                       ELSE IF RBelow(20, 100) THEN "medium" ELSE "low")
            /\ NPoints >= 4 =>
                  c = (IF RBelow(10, 100) THEN "very high"
                       ELSE IF RBelow(15, 100) THEN "high"
                       ELSE IF RBelow(25, 100) THEN "medium" ELSE "low")

\* 3 points with r in [0.15, 0.20): "medium", where 4 points would stay "medium"
\* up to 0.25 and 2 points would be "medium" from 0
C10_Witness ==
    /\ pResult # NotCalled /\ NPoints = 3
    /\ ~RBelow(15, 100) /\ RBelow(20, 100)
    /\ pResult.confidence = "medium"

\* the closing ranks of the series of the call, most recent year first
CloseRanksOfCall == [i \in 1..Len(pCutoffs) |-> pCutoffs[i].closeRank]

CalledWith(sc) ==
    pResult # NotCalled /\ pUserRank = sc[1] /\ CloseRanksOfCall = sc[2]

\* C11 as stated: for candidateRank 5000 and the series (2023, 4000),
\* (2022, 4500), (2021, 5200) the probability is greater than 0.8.
C11_AsStated == CalledWith(ScenarioA) => pResult.probability > 800

\* C11 amended: for that call the projected rank is 4246 (weighted mean
\* 11465 / 2.55 lowered by half the relative change 4000 against 4500) and
\* the probability is 0.44.
C11_ScenarioA ==
    CalledWith(ScenarioA) =>
        (pResult.projectedRank = 4246 /\ pResult.probability = 440)

C11_Witness ==
    CalledWith(ScenarioA) /\ pResult.projectedRank < 5000 /\ pResult.confidence = "high"

\* C12: a series of exactly one entry with a positive closing rank c gives
\* projectedRank = c and confidence "very low"; candidateRank 100000
\* against c = 20000 gives probability 0.01.
C12_SinglePoint ==
    (pResult # NotCalled /\ Len(pCutoffs) = 1 /\ pCutoffs[1].closeRank > 0) =>
        /\ pResult.projectedRank = pCutoffs[1].closeRank
        /\ pResult.confidence = "very low"
        /\ CalledWith(ScenarioB) => pResult.probability = 10

C12_Witness == CalledWith(ScenarioB) /\ pResult.projectedRank = 20000

\* the 5 most recent entries of the series of the call
MostRecentFive == SubSeq(pCutoffs, 1, Min(5, Len(pCutoffs)))

\* the weights 1.0, 0.85, 0.7, 0.55, 0.4 in recency order, in hundredths
StatedWeights == <<100, 85, 70, 55, 40>>

\* numerator and denominator of the weighted mean of the closing ranks of
\* the 5 most recent entries
StatedWeightedSum ==
    SumSeq([i \in 1..Len(MostRecentFive) |-> StatedWeights[i] * MostRecentFive[i].closeRank])

StatedWeightTotal == SumSeq([i \in 1..Len(MostRecentFive) |-> StatedWeights[i]])

\* C17: projectedRank is the weighted mean of the closing ranks of at most
\* the 5 most recent entries, weights 1.0, 0.85, 0.7, 0.55, 0.4, changed by
\* the momentum factor, rounded and floored at 1; the entries after the 5th
\* do not change it; it is an integer >= 1.
C17_WeightedMeanOfFive ==
    (pResult # NotCalled /\ Len(pCutoffs) > 0) =>
        LET f == MomentumFraction(pCutoffs)
        IN  /\ pResult.projectedRank =
                  Max(1, RoundDiv(StatedWeightedSum * (f[2] + f[1]), StatedWeightTotal * f[2]))
            /\ pResult.projectedRank =
                  calculatePredictionDetails(pUserRank, MostRecentFive).projectedRank
            /\ pResult.projectedRank \in Nat /\ pResult.projectedRank >= 1

\* six years, the oldest of which differs from all the others
C17_Witness ==
    /\ pResult # NotCalled /\ Len(pCutoffs) = 6
    /\ \A i \in 1..5 : pCutoffs[i].closeRank = 100
    /\ pCutoffs[6].closeRank = 200
    /\ pResult.projectedRank = 100

\* the conditions under which the momentum adjustment is applied: at least 2
\* years, previous closing rank > 0, |latest - previous| / previous > 0.03
MomentumApplies ==
    /\ Len(pCutoffs) >= 2
    /\ pCutoffs[2].closeRank > 0
    /\ 100 * Abs(pCutoffs[1].closeRank - pCutoffs[2].closeRank) > 3 * pCutoffs[2].closeRank

Sign(x) == IF x > 0 THEN 1 ELSE IF x < 0 THEN 0 - 1 ELSE 0

\* C18: the adjustment is non-zero only when MomentumApplies; then it has
\* the sign of latest - previous and is at most 10% of baseProjection, so
\* the projected rank lies between the rounded 0.9 * baseProjection and the
\* rounded 1.1 * baseProjection, on the side of the sign; otherwise the
\* projected rank is the rounded baseProjection (floored at 1, as always).
C18_MomentumBounded ==
    (pResult # NotCalled /\ Len(pCutoffs) > 0) =>
        LET f == MomentumFraction(pCutoffs)
            p == pResult.projectedRank
            base == RoundDiv(StatedWeightedSum, StatedWeightTotal)
        IN  IF MomentumApplies
            THEN LET change == pCutoffs[1].closeRank - pCutoffs[2].closeRank
                 IN  /\ Sign(f[1]) = Sign(change) /\ f[2] > 0
                     /\ 10 * Abs(f[1]) <= f[2]
                     /\ change > 0 =>
                           /\ Max(1, base) <= p
                           /\ p <= Max(1, RoundDiv(11 * StatedWeightedSum, 10 * StatedWeightTotal))
                     /\ change < 0 =>
                           /\ Max(1, RoundDiv(9 * StatedWeightedSum, 10 * StatedWeightTotal)) <= p
                           /\ p <= Max(1, base)
            ELSE f[1] = 0 /\ p = Max(1, base)

\* 104 against 100 is a change of 4%: the base 101.84 is raised by 2% to 104
C18_Witness ==
    /\ pResult # NotCalled /\ CloseRanksOfCall = <<104, 100>>
    /\ MomentumApplies
    /\ RoundDiv(StatedWeightedSum, StatedWeightTotal) = 102
    /\ pResult.projectedRank = 104

\* C19: the confidence of a series is the confidence of its 5 most recent
\* years alone (nPoints and the standard deviation range over the closing
\* ranks that entered the weighted mean).
C19_ConfidenceOfFiveMostRecent ==
    pResult # NotCalled =>
        pResult.confidence =
            calculatePredictionDetails(pUserRank, MostRecentFive).confidence

(***************************************************************************)
(* Cutoff aggregation of POST /filter (lines 1715-1727): the raw history   *)
(* rows of one ProgramKey, sorted in place by year and round descending,   *)
(* and the loop that keeps the first row with a closing rank of each year. *)
(***************************************************************************)
SeenYears(series) == {series[i].year : i \in 1..Len(series)}

\* mutant: the test closeRank !== null left out of the loop
RECURSIVE ScanLatest_KeepNull(_, _)
ScanLatest_KeepNull(items, series) ==
    IF items = <<>> THEN series
    ELSE LET histItem == Head(items)
         IN  IF histItem.year \notin SeenYears(series)
             THEN ScanLatest_KeepNull(Tail(items), Append(series, histItem))
             ELSE ScanLatest_KeepNull(Tail(items), series)

\* the for loop over the sorted array; series is latestRoundCutoffsPerYear so far
RECURSIVE ScanLatest(_, _)
ScanLatest(items, series) ==
    IF items = <<>> THEN series
    ELSE LET histItem == Head(items)
         IN  IF histItem.closeRank # NULL /\ histItem.year \notin SeenYears(series)
             THEN ScanLatest(Tail(items), Append(series, histItem))
             ELSE ScanLatest(Tail(items), series)

HistorySorted(fullHistoryForProgram) ==
    StableSort(fullHistoryForProgram, [kind |-> "yearRound"])

LatestRoundCutoffsPerYear(fullHistoryForProgram) ==
    ScanLatest(HistorySorted(fullHistoryForProgram), <<>>)

\* the raw rows of one ProgramKey, in the order the history query returned
\* them, of which the code assumes nothing
MaxHistoryLen == 3
HistYears == {LatestYear - 1, LatestYear - 2}
HistRounds == {1, 2, 3}
HistCloseRanks == {NULL, 100, 200}
HistRecords ==
    {[year |-> y, round |-> r, closeRank |-> c] :
        y \in HistYears, r \in HistRounds, c \in HistCloseRanks}

InitAgg ==
    /\ \E n \in 0..MaxHistoryLen : aHistory \in [1..n -> HistRecords]
    /\ aSeries = <<>>
    /\ aDone = FALSE

AggregateProgram ==
    /\ ~aDone
    /\ aHistory' = HistorySorted(aHistory)
    /\ aSeries' = CutoffsSorted(LatestRoundCutoffsPerYear(aHistory))
    /\ aDone' = TRUE
    /\ UNCHANGED <<estVars, predVars, rankVars, filterVars, classVars, anchorVars>>

NextAgg == AggregateProgram

InitAggregator == InitEst /\ InitPredIdle /\ InitAgg /\ InitRankIdle /\ InitFilterIdle /\ InitOthersIdle

SpecAgg == InitAggregator /\ [][NextAgg]_vars

\* C5: the series has at most one entry per year, and the entry of a year is
\* a raw record of that year with a non-null closing rank whose round is the
\* maximum among that year's records with a non-null closing rank.
C5_LatestRoundPerYear ==
    aDone =>
        /\ \A i, j \in 1..Len(aSeries) : aSeries[i].year = aSeries[j].year => i = j
        /\ \A i \in 1..Len(aSeries) :
              /\ aSeries[i].closeRank # NULL
              /\ \E k \in 1..Len(aHistory) : aHistory[k] = aSeries[i]
              /\ \A k \in 1..Len(aHistory) :
                    (aHistory[k].year = aSeries[i].year /\ aHistory[k].closeRank # NULL)
                        => aHistory[k].round <= aSeries[i].round

\* a year whose round 3 has no closing rank and whose rounds 1 and 2 have one:
\* the entry is the round-2 record
C5_Witness ==
    /\ aDone /\ Len(aHistory) = 3 /\ Len(aSeries) = 1
    /\ aSeries[1].round = 2
    /\ \E k \in 1..3 : aHistory[k].round = 3 /\ aHistory[k].closeRank = NULL
    /\ \E k \in 1..3 : aHistory[k].round = 1 /\ aHistory[k].closeRank # NULL

\* the raw records of year y
RecordsOfYear(y) == {k \in 1..Len(aHistory) : aHistory[k].year = y}

\* C16: a year all of whose raw records have a null closing rank does not
\* appear in the series; every entry of the series has a non-null closing
\* rank and the years of the entries are strictly descending.
C16_NullYearsOmitted ==
    aDone =>
        /\ \A y \in HistYears :
              (\A k \in RecordsOfYear(y) : aHistory[k].closeRank = NULL)
                  => \A i \in 1..Len(aSeries) : aSeries[i].year # y
        /\ \A i \in 1..Len(aSeries) : aSeries[i].closeRank # NULL
        /\ \A i \in 1..Len(aSeries) : \A j \in (i + 1)..Len(aSeries) :
              aSeries[i].year > aSeries[j].year

\* two null records of the most recent year and one valid record of the
\* year before: the series is that one record
C16_Witness ==
    /\ aDone /\ Len(aHistory) = 3 /\ Len(aSeries) = 1
    /\ Cardinality(RecordsOfYear(LatestYear - 1)) = 2
    /\ \A k \in RecordsOfYear(LatestYear - 1) : aHistory[k].closeRank = NULL
    /\ aSeries[1].year = LatestYear - 2

(***************************************************************************)
(* getInstituteType (lines 1534-1547).  Here a string is the sequence of   *)
(* its characters, and a value that is undefined or null is Undefined.     *)
(* Characters spells the labels of the sample rows.                        *)
(***************************************************************************)
Undefined == <<"undefined">>

WhiteSpace == {" "}

\* String.prototype.trim
RECURSIVE TrimStart(_)
TrimStart(str) ==
    IF str # <<>> /\ Head(str) \in WhiteSpace THEN TrimStart(Tail(str)) ELSE str

RECURSIVE TrimEnd(_)
TrimEnd(str) ==
    IF str # <<>> /\ str[Len(str)] \in WhiteSpace
    THEN TrimEnd(SubSeq(str, 1, Len(str) - 1)) ELSE str

Trim(str) == TrimEnd(TrimStart(str))

LowerCaseLetters ==
    <<"a", "b", "c", "d", "e", "f", "g", "h", "i", "j", "k", "l", "m",
    "n", "o", "p", "q", "r", "s", "t", "u", "v", "w", "x", "y", "z">>

UpperCaseLetters ==
    <<"A", "B", "C", "D", "E", "F", "G", "H", "I", "J", "K", "L", "M",
    "N", "O", "P", "Q", "R", "S", "T", "U", "V", "W", "X", "Y", "Z">>

\* String.prototype.toUpperCase and toLowerCase
toUpperCase(str) ==
    [i \in 1..Len(str) |->
        IF \E n \in 1..26 : LowerCaseLetters[n] = str[i]
        THEN UpperCaseLetters[CHOOSE n \in 1..26 : LowerCaseLetters[n] = str[i]]
        ELSE str[i]]

toLowerCase(str) ==
    [i \in 1..Len(str) |->
        IF \E n \in 1..26 : UpperCaseLetters[n] = str[i]
        THEN LowerCaseLetters[CHOOSE n \in 1..26 : UpperCaseLetters[n] = str[i]]
        ELSE str[i]]

\* String.prototype.includes and startsWith
includes(str, searchString) ==
    \E i \in 0..(Len(str) - Len(searchString)) :
        SubSeq(str, i + 1, i + Len(searchString)) = searchString

startsWith(str, searchString) ==
    /\ Len(str) >= Len(searchString)
    /\ SubSeq(str, 1, Len(searchString)) = searchString

\* 'indian institute of technology'
NameOfIIT ==
    <<"i", "n", "d", "i", "a", "n", " ", "i", "n", "s", "t", "i", "t",
    "u", "t", "e", " ", "o", "f", " ", "t", "e", "c", "h", "n", "o", "l",
    "o", "g", "y">>

\* 'national institute of technology'
NameOfNIT ==
    <<"n", "a", "t", "i", "o", "n", "a", "l", " ", "i", "n", "s", "t",
    "i", "t", "u", "t", "e", " ", "o", "f", " ", "t", "e", "c", "h", "n",
    "o", "l", "o", "g", "y">>

\* 'iiest, shibpur'
NameOfShibpur ==
    <<"i", "i", "e", "s", "t", ",", " ", "s", "h", "i", "b", "p", "u",
    "r">>

\* 'indian institute of information technology'
NameOfIIIT ==
    <<"i", "n", "d", "i", "a", "n", " ", "i", "n", "s", "t", "i", "t",
    "u", "t", "e", " ", "o", "f", " ", "i", "n", "f", "o", "r", "m", "a",
    "t", "i", "o", "n", " ", "t", "e", "c", "h", "n", "o", "l", "o", "g",
    "y">>

\* mutant: without the name 'iiest, shibpur'
getInstituteType_NoShibpur(value) ==
    IF value = Undefined \/ value = <<>> THEN "UNKNOWN"
    ELSE LET valStr == Trim(value)
             valUpper == toUpperCase(valStr)
             nameLower == toLowerCase(valStr)
         IN  IF valUpper = <<"I", "I", "T">> THEN "IIT"
             ELSE IF valUpper = <<"N", "I", "T">> THEN "NIT"
             ELSE IF valUpper = <<"I", "I", "I", "T">> THEN "IIIT"
             ELSE IF valUpper = <<"G", "F", "T", "I">> THEN "GFTI"
             ELSE IF includes(nameLower, NameOfIIT)
                     \/ startsWith(nameLower, <<"i", "i", "t">>) THEN "IIT"
             ELSE IF includes(nameLower, NameOfNIT)
                     \/ startsWith(nameLower, <<"n", "i", "t">>) THEN "NIT"
             ELSE IF includes(nameLower, NameOfIIIT)
                     \/ startsWith(nameLower, <<"i", "i", "i", "t">>) THEN "IIIT"
             ELSE "GFTI"

getInstituteType(value) ==
    IF value = Undefined \/ value = <<>> THEN "UNKNOWN"
    ELSE LET valStr == Trim(value)
             valUpper == toUpperCase(valStr)
             nameLower == toLowerCase(valStr)
         IN  IF valUpper = <<"I", "I", "T">> THEN "IIT"
             ELSE IF valUpper = <<"N", "I", "T">> THEN "NIT"
             ELSE IF valUpper = <<"I", "I", "I", "T">> THEN "IIIT"
             ELSE IF valUpper = <<"G", "F", "T", "I">> THEN "GFTI"
             ELSE IF includes(nameLower, NameOfIIT)
                     \/ startsWith(nameLower, <<"i", "i", "t">>) THEN "IIT"
             ELSE IF includes(nameLower, NameOfNIT)
                     \/ includes(nameLower, NameOfShibpur)
                     \/ startsWith(nameLower, <<"n", "i", "t">>) THEN "NIT"
             ELSE IF includes(nameLower, NameOfIIIT)
                     \/ startsWith(nameLower, <<"i", "i", "i", "t">>) THEN "IIIT"
             ELSE "GFTI"

\* the characters of the texts the sample rows carry
Characters(value) ==
    CASE value = "" -> <<>>
      [] value = "IIT" -> <<"I", "I", "T">>
      [] value = "NIT" -> <<"N", "I", "T">>
      [] value = "IIIT" -> <<"I", "I", "I", "T">>
      [] value = "GFTI" -> <<"G", "F", "T", "I">>
      [] value = IITB ->
          <<"I", "n", "d", "i", "a", "n", " ", "I", "n", "s", "t", "i",
          "t", "u", "t", "e", " ", "o", "f", " ", "T", "e", "c", "h", "n",
          "o", "l", "o", "g", "y", " ", "B", "o", "m", "b", "a", "y">>
      [] value = IITD ->
          <<"I", "n", "d", "i", "a", "n", " ", "I", "n", "s", "t", "i",
          "t", "u", "t", "e", " ", "o", "f", " ", "T", "e", "c", "h", "n",
          "o", "l", "o", "g", "y", " ", "D", "e", "l", "h", "i">>
      [] value = NITT ->
          <<"N", "a", "t", "i", "o", "n", "a", "l", " ", "I", "n", "s",
          "t", "i", "t", "u", "t", "e", " ", "o", "f", " ", "T", "e", "c",
          "h", "n", "o", "l", "o", "g", "y", " ", "T", "i", "r", "u", "c",
          "h", "i", "r", "a", "p", "p", "a", "l", "l", "i">>
      [] value = PEC ->
          <<"P", "u", "n", "j", "a", "b", " ", "E", "n", "g", "i", "n",
          "e", "e", "r", "i", "n", "g", " ", "C", "o", "l", "l", "e", "g",
          "e", " ", "C", "h", "a", "n", "d", "i", "g", "a", "r", "h">>
      [] value = "Computer Science and Engineering" ->
          <<"C", "o", "m", "p", "u", "t", "e", "r", " ", "S", "c", "i",
          "e", "n", "c", "e", " ", "a", "n", "d", " ", "E", "n", "g", "i",
          "n", "e", "e", "r", "i", "n", "g">>
      [] value = "Electrical Engineering" ->
          <<"E", "l", "e", "c", "t", "r", "i", "c", "a", "l", " ", "E",
          "n", "g", "i", "n", "e", "e", "r", "i", "n", "g">>
      [] value = "AI" ->
          <<"A", "I">>
      [] value = "HS" ->
          <<"H", "S">>
      [] value = "OPEN" ->
          <<"O", "P", "E", "N">>
      [] value = "Gender-Neutral" ->
          <<"G", "e", "n", "d", "e", "r", "-", "N", "e", "u", "t", "r",
          "a", "l">>
      [] value = "X" ->
          <<"X">>
      [] value = "X|Y" ->
          <<"X", "|", "Y">>
      [] value = "Y|Z" ->
          <<"Y", "|", "Z">>
      [] value = "Z" ->
          <<"Z">>

getDynamicAnchorOffset(userRank) ==
    IF userRank <= 0 THEN 1000
    ELSE IF userRank <= 10000 THEN 1000
    ELSE IF userRank <= 20000 THEN 1500
    ELSE IF userRank <= 30000 THEN 2200
    ELSE IF userRank <= 40000 THEN 2900
    ELSE IF userRank <= 50000 THEN 3500
    ELSE IF userRank <= 60000 THEN 4000
    ELSE IF userRank <= 70000 THEN 5500
    ELSE IF userRank <= 80000 THEN 6000
    ELSE IF userRank <= 90000 THEN 8500
    ELSE IF userRank <= 100000 THEN 10500
    ELSE IF userRank <= 150000 THEN 12500
    ELSE IF userRank <= 210000 THEN 20000
    ELSE 30000

\* mutant: the anchor not floored at 1 and the offset of the first step used
\* for every rank
AnchorRankForSort_FirstStep(userRankInt) == userRankInt - 1000

\* anchorRankForSort = Math.max(1, userRankInt - dynamicOffset)
AnchorRankForSort(userRankInt) ==
    Max(1, userRankInt - getDynamicAnchorOffset(userRankInt))

\* row.instituteCategory = getInstituteType(row["College type"] || row.Institute)
WithCategory(row) ==
    [row EXCEPT !.instituteCategory =
        getInstituteType(
            Characters(IF row.CollegeType # "" THEN row.CollegeType ELSE row.Institute))]

\* filteredData after the forEach of line 1680 and the sort of line 1742 or 1777
RankedRows(rows, userRankInt) ==
    LET filteredData == [i \in 1..Len(rows) |-> WithCategory(rows[i])]
    IN  IF userRankInt # NULL /\ Len(filteredData) > 0
        THEN StableSort(filteredData,
                        [kind |-> "anchor", anchor |-> AnchorRankForSort(userRankInt)])
        ELSE IF Len(filteredData) > 0
        THEN StableSort(filteredData, [kind |-> "noRank"])
        ELSE filteredData

(***************************************************************************)
(* The candidate rows of one request.  All rows have the year and round of *)
(* the request (lines 1646-1647); with a candidate rank the query keeps    *)
(* only closing ranks > 0 (line 1667).  The closing ranks of the sample    *)
(* rows lie just below, at and above the rank that is one step-table       *)
(* offset below the candidate rank.                                        *)
(***************************************************************************)
MaxRows == 3
RequestRound == 6
UserRanks ==
    {NULL, 1, 1001, 4000, 10000, 10001, 20000, 20001, 30001, 40001, 50001,
     60001, 70001, 80001, 90001, 100001, 150001, 210000, 210001}

StepTable ==
    <<<<10000, 1000>>, <<20000, 1500>>, <<30000, 2200>>, <<40000, 2900>>,
      <<50000, 3500>>, <<60000, 4000>>, <<70000, 5500>>, <<80000, 6000>>,
      <<90000, 8500>>, <<100000, 10500>>, <<150000, 12500>>, <<210000, 20000>>>>

\* the offset the step table gives a rank: that of the first step whose upper
\* rank is not below it, 30000 beyond the last step
StepOffset(rank) ==
    IF rank > StepTable[Len(StepTable)][1] THEN 30000
    ELSE StepTable[CHOOSE i \in 1..Len(StepTable) :
                      /\ rank <= StepTable[i][1]
                      /\ \A j \in 1..(i - 1) : rank > StepTable[j][1]][2]

StepAnchor(rank) == Max(1, rank - StepOffset(rank))

Row(institute, collegeType, program, quota, closingRank) ==
    [Institute |-> institute, Program |-> program, Quota |-> quota,
     SeatType |-> "OPEN", Gender |-> "Gender-Neutral",
     Year |-> LatestYear, Round |-> RequestRound,
     CollegeType |-> collegeType, ClosingRank |-> closingRank,
     instituteCategory |-> ""]

CSE == "Computer Science and Engineering"
EE == "Electrical Engineering"

StoredRows(userRankInt) ==
    LET at == IF userRankInt = NULL THEN 3000 ELSE StepAnchor(userRankInt)
        lo == at - 1
        hi == at + 500
    IN  {Row(IITB, "IIT", CSE, "AI", hi), Row(IITB, "IIT", EE, "AI", hi),
         Row(IITD, "IIT", CSE, "AI", lo), Row(NITT, "NIT", CSE, "AI", at),
         Row(NITT, "NIT", CSE, "HS", at), Row(PEC, "", CSE, "AI", lo),
         Row(PEC, "", EE, "AI", NULL), Row("", "", CSE, "AI", hi),
         Row(IITD, "IIT", EE, "AI", hi), Row(IITD, "IIT", EE, "HS", at)}

\* the rows the WHERE clause of the candidate query lets through
MatchingRows(userRankInt) ==
    IF userRankInt = NULL THEN StoredRows(userRankInt)
    ELSE {row \in StoredRows(userRankInt) : row.ClosingRank # NULL /\ row.ClosingRank > 0}

\* ORDER BY rank_diff_from_user ASC, "Year" DESC, "Round" DESC
RankQueryOrdered(a, b, userRankInt) ==
    Abs(a.ClosingRank - userRankInt) <= Abs(b.ClosingRank - userRankInt)

\* ORDER BY "Institute" ASC, "Academic Program Name" ASC, "Year" DESC,
\* "Round" DESC, COALESCE("Closing Rank", 9999999) ASC
NameQueryOrdered(a, b) ==
    LET ca == IF a.ClosingRank = NULL THEN 9999999 ELSE a.ClosingRank
        cb == IF b.ClosingRank = NULL THEN 9999999 ELSE b.ClosingRank
    IN  IF LocaleCompare(a.Institute, b.Institute) # 0
        THEN LocaleCompare(a.Institute, b.Institute) < 0
        ELSE IF LocaleCompare(a.Program, b.Program) # 0
        THEN LocaleCompare(a.Program, b.Program) < 0
        ELSE ca <= cb

QueryOrdered(a, b, userRankInt) ==
    IF userRankInt # NULL THEN RankQueryOrdered(a, b, userRankInt)
    ELSE NameQueryOrdered(a, b)

\* the orders in which the query may return the rows of S: every order that
\* agrees with its ORDER BY; rows the ORDER BY leaves tied come in any order
FetchOrders(S, userRankInt) ==
    LET n == Cardinality(S)
    IN  {f \in [1..n -> S] :
            /\ \A i, j \in 1..n : f[i] = f[j] => i = j
            /\ \A i \in 1..n : \A j \in (i + 1)..n : QueryOrdered(f[i], f[j], userRankInt)}

InitRank ==
    /\ rUserRank \in UserRanks
    /\ \E S \in SUBSET MatchingRows(rUserRank) :
          /\ Cardinality(S) <= MaxRows
          /\ rRows \in FetchOrders(S, rUserRank)
          /\ rRowsB \in FetchOrders(S, rUserRank)
    /\ rOut = <<>> /\ rOutB = <<>> /\ rDone = FALSE

\* lines 1680-1682 and 1737-1790, for both orders of the response
RankRows ==
    /\ ~rDone
    /\ rOut' = RankedRows(rRows, rUserRank)
    /\ rOutB' = RankedRows(rRowsB, rUserRank)
    /\ rDone' = TRUE
    /\ UNCHANGED <<rUserRank, rRows, rRowsB, estVars, predVars, aggVars, filterVars, classVars, anchorVars>>

NextRank == RankRows

InitRanker == InitEst /\ InitPredIdle /\ InitAggIdle /\ InitRank /\ InitFilterIdle /\ InitOthersIdle

SpecRank == InitRanker /\ [][NextRank]_vars

\* C6: the output order is a function of the candidate set only: for any two
\* orders in which the same candidates arrive, the returned order is the same.
C6_OrderIndependentOfInputOrder == rDone => rOut = rOutB

\* C7: with a candidate rank, every candidate whose closing rank is at or
\* above anchorRank = max(1, candidateRank - offset), offset from the step
\* table, comes before every candidate whose closing rank is below it.
C7_AnchorPartition ==
    (rDone /\ rUserRank # NULL) =>
        \A i, j \in 1..Len(rOut) :
            (/\ rOut[i].ClosingRank >= StepAnchor(rUserRank)
             /\ rOut[j].ClosingRank < StepAnchor(rUserRank)) => i < j

\* candidate rank 4000, anchor 3000: an NIT row closing at 3000 (Group 1) is
\* placed before an IIT row closing at 2999 (Group 2)
C7_Witness ==
    /\ rDone /\ rUserRank = 4000 /\ Len(rOut) >= 2
    /\ \E i, j \in 1..Len(rOut) :
          /\ i < j
          /\ rOut[i].ClosingRank = 3000 /\ rOut[i].instituteCategory = "NIT"
          /\ rOut[j].ClosingRank = 2999 /\ rOut[j].instituteCategory = "IIT"

\* the place of an output row in the array the query returned
InputIndex(row) ==
    CHOOSE k \in 1..Len(rRows) : WithCategory(rRows[k]) = row

\* category precedence, then institute name, then program name
KeyCompare(a, b) ==
    IF TypeOrder(a.instituteCategory) # TypeOrder(b.instituteCategory)
    THEN TypeOrder(a.instituteCategory) - TypeOrder(b.instituteCategory)
    ELSE IF LocaleCompare(a.Institute, b.Institute) # 0
    THEN LocaleCompare(a.Institute, b.Institute)
    ELSE LocaleCompare(a.Program, b.Program)

\* C8: without a candidate rank the output is ordered by institute category
\* precedence, then institute name, then program name, and by nothing else:
\* rows equal in these three keep the order in which they arrived.
C8_NoRankOrder ==
    (rDone /\ rUserRank = NULL) =>
        \A i, j \in 1..Len(rOut) :
            i < j => \/ KeyCompare(rOut[i], rOut[j]) < 0
                     \/ /\ KeyCompare(rOut[i], rOut[j]) = 0
                        /\ InputIndex(rOut[i]) < InputIndex(rOut[j])

\* an IIT row with a higher closing rank before an IIT row of a later name
\* with a lower one, both before a row without category or closing-rank order
C8_Witness ==
    /\ rDone /\ rUserRank = NULL /\ Len(rOut) = 3
    /\ rOut[1].Institute = IITB /\ rOut[2].Institute = IITD
    /\ rOut[1].ClosingRank > rOut[2].ClosingRank
    /\ rOut[3].instituteCategory = "UNKNOWN"
    /\ rRows[1].Institute = ""

(***************************************************************************)
(* POST /filter (lines 1590-1804).  A string is the sequence of its        *)
(* characters; a userRank that is undefined or null is Undefined.  A       *)
(* number or an array in the body is seen by the checks of lines 1597-1601 *)
(* through its conversion to a string.                                     *)
(***************************************************************************)
Digits == {"0", "1", "2", "3", "4", "5", "6", "7", "8", "9"}

DigitValue(c) ==
    CASE c = "0" -> 0 [] c = "1" -> 1 [] c = "2" -> 2 [] c = "3" -> 3
      [] c = "4" -> 4 [] c = "5" -> 5 [] c = "6" -> 6 [] c = "7" -> 7
      [] c = "8" -> 8 [] c = "9" -> 9

\* /^\d+$/.test(str)
AllDigits(str) == str # <<>> /\ \A i \in 1..Len(str) : str[i] \in Digits

\* parseInt(str, 10) of a string of digits
RECURSIVE ParseInt(_)
ParseInt(str) ==
    IF str = <<>> THEN 0
    ELSE 10 * ParseInt(SubSeq(str, 1, Len(str) - 1)) + DigitValue(str[Len(str)])

\* mutant: the pattern tested on the trimmed string
ValidateUserRank_Trimmed(userRank) ==
    IF userRank # Undefined /\ Trim(userRank) # <<>>
    THEN IF ~AllDigits(Trim(userRank)) \/ ParseInt(Trim(userRank)) <= 0
         THEN [ok |-> FALSE, userRankInt |-> NULL]
         ELSE [ok |-> TRUE, userRankInt |-> ParseInt(Trim(userRank))]
    ELSE [ok |-> TRUE, userRankInt |-> NULL]

\* lines 1596-1602: ok = FALSE is the 400 response
ValidateUserRank(userRank) ==
    IF userRank # Undefined /\ Trim(userRank) # <<>>
    THEN IF ~AllDigits(userRank) \/ ParseInt(userRank) <= 0
         THEN [ok |-> FALSE, userRankInt |-> NULL]
         ELSE [ok |-> TRUE, userRankInt |-> ParseInt(userRank)]
    ELSE [ok |-> TRUE, userRankInt |-> NULL]

(***************************************************************************)
(* The table public.combined_josaa_in, which no request changes: the rows  *)
(* of the latest year and round that pass the other filters of the         *)
(* requests, and the rows of earlier rounds and years of their ProgramKeys.*)
(***************************************************************************)
FilterTable ==
    {Row(NITT, "NIT", CSE, "AI", 3000), Row(NITT, "NIT", CSE, "HS", 3000),
     Row(IITD, "IIT", CSE, "AI", 2999), Row(PEC, "", EE, "AI", NULL),
     [Row("X|Y", "", "Z", "AI", 5000) EXCEPT !.Round = RequestRound - 1],
     [Row("X", "NIT", "Y|Z", "AI", 6000) EXCEPT !.Round = RequestRound - 1]}

\* SELECT MAX("Year") and SELECT MAX("Round") WHERE "Year" = $1
StorageMaxYear == LatestYear
StorageMaxRound(year) == IF year = LatestYear THEN RequestRound ELSE NULL

\* the rows the WHERE clause of the candidate query lets through
FilterMatching(userRankInt, year, round) ==
    {row \in FilterTable :
        /\ row.Year = year /\ row.Round = round
        /\ userRankInt # NULL => (row.ClosingRank # NULL /\ row.ClosingRank > 0)}

\* the value programMapForHistory holds for a row (line 1689)
ProgramFields(row) == <<row.Institute, row.Program, row.Quota, row.SeatType, row.Gender>>

\* `${row.Institute}|${row["Academic Program Name"]}|${row.Quota}|...`
ProgramKey(row) ==
    Characters(row.Institute) \o <<"|">> \o Characters(row.Program) \o <<"|">>
        \o Characters(row.Quota) \o <<"|">> \o Characters(row.SeatType) \o <<"|">>
        \o Characters(row.Gender)

\* lines 1685-1691: an entry for every row whose key is not yet in the map
RECURSIVE programMapForHistory(_)
programMapForHistory(filteredData) ==
    IF filteredData = <<>> THEN <<>>
    ELSE LET map == programMapForHistory(SubSeq(filteredData, 1, Len(filteredData) - 1))
             row == filteredData[Len(filteredData)]
         IN  IF \E i \in 1..Len(map) : map[i].key = ProgramKey(row) THEN map
             ELSE Append(map, [key |-> ProgramKey(row), value |-> ProgramFields(row)])

\* line 1703, five parameters for each entry of the map
historicalParams(filteredData) ==
    LET map == programMapForHistory(filteredData)
    IN  [i \in 1..Len(map) |-> map[i].value]

\* the rows of one ProgramKey as the history query returns them
\* (ORDER BY ..., "Year" DESC, "Round" DESC): the current row and, for the
\* All-India quota, two rounds of the year before
StoredHistory(row) ==
    <<[year |-> row.Year, round |-> row.Round, closeRank |-> row.ClosingRank]>>
    \o (IF row.Quota = "AI" /\ row.ClosingRank # NULL
        THEN <<[year |-> row.Year - 1, round |-> 6, closeRank |-> NULL],
               [year |-> row.Year - 1, round |-> 5, closeRank |-> 4000]>>
        ELSE <<>>)

\* the stored rows of one program, with the columns the history query selects
RowsOfProgram(program, history) ==
    [n \in 1..Len(history) |->
        [Institute |-> program.Institute, Program |-> program.Program,
         Quota |-> program.Quota, SeatType |-> program.SeatType,
         Gender |-> program.Gender, Year |-> history[n].year,
         Round |-> history[n].round, ClosingRank |-> history[n].closeRank]]

RECURSIVE Flatten(_)
Flatten(seqs) == IF seqs = <<>> THEN <<>> ELSE Head(seqs) \o Flatten(Tail(seqs))

\* historicalResult.rows for these parameters: the stored rows of every
\* program named.  Rows of two programs are grouped apart below, so of the
\* ORDER BY only the order inside one program is kept.
HistoricalRows(params) ==
    Flatten([i \in 1..Len(params) |->
        LET program == CHOOSE row \in FilterTable : ProgramFields(row) = params[i]
        IN  RowsOfProgram(program, StoredHistory(program))])

\* lines 1706-1711 and 1715: historicalDataGrouped[key] || []
historicalDataGrouped(rows, key) ==
    LET OfKey(row) == ProgramKey(row) = key
        group == SelectSeq(rows, OfKey)
    IN  [n \in 1..Len(group) |->
            [year |-> group[n].Year, round |-> group[n].Round,
             closeRank |-> group[n].ClosingRank]]

\* lines 1713-1733: { ...row, ...predictionOutput, historicalDataForDisplay }
PredictedRow(row, userRankInt, historicalRows) ==
    LET fullHistoryForProgram == historicalDataGrouped(historicalRows, ProgramKey(row))
        latestRoundCutoffsPerYear == LatestRoundCutoffsPerYear(fullHistoryForProgram)
        predictionOutput == calculatePredictionDetails(userRankInt, latestRoundCutoffsPerYear)
    IN  [Institute |-> row.Institute, Program |-> row.Program, Quota |-> row.Quota,
         SeatType |-> row.SeatType, Gender |-> row.Gender,
         Year |-> row.Year, Round |-> row.Round,
         CollegeType |-> row.CollegeType, ClosingRank |-> row.ClosingRank,
         instituteCategory |-> row.instituteCategory,
         projectedRank |-> predictionOutput.projectedRank,
         probability |-> predictionOutput.probability,
         confidence |-> predictionOutput.confidence,
         historicalDataForDisplay |-> CutoffsSorted(latestRoundCutoffsPerYear)]

\* filteredData after lines 1680-1682
Categorised(rows) == [i \in 1..Len(rows) |-> WithCategory(rows[i])]

\* mutant: the list built from one row for each key of programMapForHistory
SortedData_OneRowPerKey(filteredData, userRankInt) ==
    LET map == programMapForHistory(filteredData)
        firstRows == [i \in 1..Len(map) |->
            filteredData[CHOOSE n \in 1..Len(filteredData) :
                /\ ProgramKey(filteredData[n]) = map[i].key
                /\ \A m \in 1..(n - 1) : ProgramKey(filteredData[m]) # map[i].key]]
    IN  IF userRankInt # NULL /\ Len(filteredData) > 0
        THEN LET historicalRows == HistoricalRows(historicalParams(filteredData))
             IN  StableSort([i \in 1..Len(firstRows) |->
                                PredictedRow(firstRows[i], userRankInt, historicalRows)],
                            [kind |-> "anchor", anchor |-> AnchorRankForSort(userRankInt)])
        ELSE IF Len(filteredData) > 0
        THEN StableSort(firstRows, [kind |-> "noRank"])
        ELSE filteredData

\* filteredData after lines 1684-1790, from the categorised rows
SortedData(filteredData, userRankInt) ==
    IF userRankInt # NULL /\ Len(filteredData) > 0
    THEN LET historicalRows == HistoricalRows(historicalParams(filteredData))
         IN  StableSort([i \in 1..Len(filteredData) |->
                            PredictedRow(filteredData[i], userRankInt, historicalRows)],
                        [kind |-> "anchor", anchor |-> AnchorRankForSort(userRankInt)])
    ELSE IF Len(filteredData) > 0
    THEN StableSort(filteredData, [kind |-> "noRank"])
    ELSE filteredData

\* actualFiltersForCache; the filters that are the same in every request
\* are left out
ActualFilters(local) ==
    [userRank |-> local.userRankInt, Year |-> local.Year, round |-> local.round]

\* lines 1792-1796
ResponseData(filteredData, local) ==
    [success |-> TRUE, count |-> Len(filteredData), filterData |-> filteredData,
     appliedFilters |-> ActualFilters(local)]

\* mutant: the round left out of the key
CacheKey_NoRound(local) == <<"filter:v15_simple_anchor_sort", local.userRankInt, local.Year>>

\* `filter:v15_simple_anchor_sort:${JSON.stringify(actualFiltersForCache)}`
CacheKey(local) == <<"filter:v15_simple_anchor_sort", local.userRankInt, local.Year, local.round>>

(***************************************************************************)
(* The cache helpers.  outcome is what the Redis client does with the      *)
(* call: "notReady" (isReady is false), "throws" (the command rejects; a   *)
(* SET that rejects may or may not have been applied, "throwsWritten"),    *)
(* "answers".  thrown = TRUE is the helper's promise rejecting.            *)
(***************************************************************************)
NoData == [success |-> FALSE]

\* mutant: redisClient.get awaited outside try / catch
getFromCache_NoCatch(outcome, cache, key) ==
    IF outcome = "notReady" THEN [thrown |-> FALSE, hit |-> FALSE, data |-> NoData]
    ELSE IF outcome = "throws" THEN [thrown |-> TRUE, hit |-> FALSE, data |-> NoData]
    ELSE IF key \in DOMAIN cache
         THEN [thrown |-> FALSE, hit |-> TRUE, data |-> cache[key]]
         ELSE [thrown |-> FALSE, hit |-> FALSE, data |-> NoData]

\* lines 1399-1411; hit is "data ? JSON.parse(data) : null" being an object
getFromCache(outcome, cache, key) ==
    IF outcome = "notReady" THEN [thrown |-> FALSE, hit |-> FALSE, data |-> NoData]
    ELSE IF outcome = "throws" THEN [thrown |-> FALSE, hit |-> FALSE, data |-> NoData]
    ELSE IF key \in DOMAIN cache
         THEN [thrown |-> FALSE, hit |-> TRUE, data |-> cache[key]]
         ELSE [thrown |-> FALSE, hit |-> FALSE, data |-> NoData]

\* redisClient.set(key, JSON.stringify(data), { EX }): last write wins
CacheSet(cache, key, data) ==
    [k \in DOMAIN cache \cup {key} |-> IF k = key THEN data ELSE cache[k]]

\* mutant: redisClient.set awaited outside try / catch
cacheResponse_NoCatch(outcome, cache, key, data) ==
    IF outcome = "notReady" THEN [thrown |-> FALSE, cache |-> cache]
    ELSE IF outcome = "throws" THEN [thrown |-> TRUE, cache |-> cache]
    ELSE IF outcome = "throwsWritten" THEN [thrown |-> TRUE, cache |-> CacheSet(cache, key, data)]
    ELSE [thrown |-> FALSE, cache |-> CacheSet(cache, key, data)]

\* lines 1387-1397
cacheResponse(outcome, cache, key, data) ==
    IF outcome = "notReady" THEN [thrown |-> FALSE, cache |-> cache]
    ELSE IF outcome = "throws" THEN [thrown |-> FALSE, cache |-> cache]
    ELSE IF outcome = "throwsWritten" THEN [thrown |-> FALSE, cache |-> CacheSet(cache, key, data)]
    ELSE [thrown |-> FALSE, cache |-> CacheSet(cache, key, data)]

(***************************************************************************)
(* The handler.  The code between two awaits runs without interruption;    *)
(* fPc names the call a request is suspended at.  Each action below is the *)
(* return of that call followed by the code up to the next await.          *)
(***************************************************************************)
Reqs == {1, 2}

\* cacheKey before line 1623 has run
NoKey == <<>>

InitLocal ==
    [userRankInt |-> NULL, Year |-> NULL, round |-> NULL, cacheKey |-> NoKey,
     initialRows |-> <<>>, filteredData |-> <<>>, historicalParams |-> <<>>,
     responseData |-> NoData]

Issue(log, call) == Append(log, [call |-> call, outcome |-> "pending"])
Settle(log, outcome) == [log EXCEPT ![Len(log)].outcome = outcome]

\* res.status(status).json(body)
Respond(r, status, body) ==
    fRes' = [fRes EXCEPT ![r] = Append(@, [status |-> status, body |-> body])]

ErrorBody == [success |-> FALSE]

\* mutant: a catch block that logs the error and sends nothing
Catch_NoResponse(r) ==
    /\ fPc' = [fPc EXCEPT ![r] = "done"]
    /\ fLog' = [fLog EXCEPT ![r] = Settle(@, "throws")]
    /\ UNCHANGED <<fLocal, fRes, fCache>>

\* the catch block of line 1800, entered from the await fPc[r] names
Catch(r) ==
    /\ Respond(r, 500, ErrorBody)
    /\ fPc' = [fPc EXCEPT ![r] = "done"]
    /\ fLog' = [fLog EXCEPT ![r] = Settle(@, "throws")]
    /\ UNCHANGED <<fLocal, fCache>>

\* lines 1608-1625: the first await a request with these locals reaches
ResolveAwait(local) ==
    IF local.Year = NULL THEN "maxYear"
    ELSE IF local.round = NULL THEN "maxRound"
    ELSE "getFromCache"

\* lines 1608-1623: the locals when that await is reached; cacheKey is
\* assigned on the way to getFromCache
AtAwait(local) ==
    IF ResolveAwait(local) = "getFromCache"
    THEN [local EXCEPT !.cacheKey = CacheKey(local)]
    ELSE local

\* lines 1591-1607
ReceiveRequest ==
    /\ \E r \in Reqs :
        /\ fPc[r] = "start"
        /\ LET v == ValidateUserRank(fBody[r].userRank)
               local == [InitLocal EXCEPT !.userRankInt = v.userRankInt,
                                          !.Year = fBody[r].Year,
                                          !.round = fBody[r].round]
           IN  IF ~v.ok
               THEN /\ Respond(r, 400, ErrorBody)
                    /\ fPc' = [fPc EXCEPT ![r] = "done"]
                    /\ UNCHANGED <<fLocal, fLog, fCache>>
               ELSE /\ fLocal' = [fLocal EXCEPT ![r] = AtAwait(local)]
                    /\ fPc' = [fPc EXCEPT ![r] = ResolveAwait(local)]
                    /\ fLog' = [fLog EXCEPT ![r] = Issue(@, ResolveAwait(local))]
                    /\ UNCHANGED <<fRes, fCache>>
    /\ UNCHANGED <<fBody, estVars, predVars, aggVars, rankVars, classVars, anchorVars>>

\* lines 1609-1611
MaxYearReturns ==
    /\ \E r \in Reqs :
        /\ fPc[r] = "maxYear"
        /\ \/ Catch(r)
           \/ LET local == [fLocal[r] EXCEPT !.Year = StorageMaxYear]
              IN  /\ fLocal' = [fLocal EXCEPT ![r] = AtAwait(local)]
                  /\ fPc' = [fPc EXCEPT ![r] = ResolveAwait(local)]
                  /\ fLog' = [fLog EXCEPT ![r] = Issue(Settle(@, "ok"), ResolveAwait(local))]
                  /\ UNCHANGED <<fRes, fCache>>
    /\ UNCHANGED <<fBody, estVars, predVars, aggVars, rankVars, classVars, anchorVars>>

\* lines 1613-1617
MaxRoundReturns ==
    /\ \E r \in Reqs :
        /\ fPc[r] = "maxRound"
        /\ \/ Catch(r)
           \/ LET maxRound == StorageMaxRound(fLocal[r].Year)
                  local == [fLocal[r] EXCEPT
                               !.round = IF maxRound # NULL THEN maxRound ELSE 1]
              IN  /\ fLocal' = [fLocal EXCEPT ![r] = AtAwait(local)]
                  /\ fPc' = [fPc EXCEPT ![r] = "getFromCache"]
                  /\ fLog' = [fLog EXCEPT ![r] = Issue(Settle(@, "ok"), "getFromCache")]
                  /\ UNCHANGED <<fRes, fCache>>
    /\ UNCHANGED <<fBody, estVars, predVars, aggVars, rankVars, classVars, anchorVars>>

\* lines 1625-1629 and the construction of the candidate query
CacheGetReturns ==
    /\ \E r \in Reqs : \E outcome \in {"notReady", "throws", "answers"} :
        /\ fPc[r] = "getFromCache"
        /\ LET got == getFromCache(outcome, fCache, fLocal[r].cacheKey)
           IN  IF got.thrown THEN Catch(r)
               ELSE IF got.hit
               THEN /\ Respond(r, 200, got.data)
                    /\ fPc' = [fPc EXCEPT ![r] = "done"]
                    /\ fLog' = [fLog EXCEPT ![r] = Settle(@, "hit")]
                    /\ UNCHANGED <<fLocal, fCache>>
               ELSE /\ fPc' = [fPc EXCEPT ![r] = "candidateQuery"]
                    /\ fLog' = [fLog EXCEPT ![r] =
                                  Issue(Settle(@, IF outcome = "answers" THEN "miss" ELSE outcome),
                                        "candidateQuery")]
                    /\ UNCHANGED <<fLocal, fRes, fCache>>
    /\ UNCHANGED <<fBody, estVars, predVars, aggVars, rankVars, classVars, anchorVars>>

\* lines 1676-1704 with a candidate rank and rows, lines 1676-1797 without
CandidateQueryReturns ==
    /\ \E r \in Reqs :
        /\ fPc[r] = "candidateQuery"
        /\ \/ Catch(r)
           \/ \E rows \in FetchOrders(FilterMatching(fLocal[r].userRankInt, fLocal[r].Year,
                                                     fLocal[r].round),
                                      fLocal[r].userRankInt) :
                LET filteredData == Categorised(rows)
                IN  IF fLocal[r].userRankInt # NULL /\ Len(filteredData) > 0
                    THEN /\ fLocal' = [fLocal EXCEPT
                               ![r].initialRows = rows,
                               ![r].filteredData = filteredData,
                               ![r].historicalParams = historicalParams(filteredData)]
                         /\ fPc' = [fPc EXCEPT ![r] = "historyQuery"]
                         /\ fLog' = [fLog EXCEPT ![r] = Issue(Settle(@, "ok"), "historyQuery")]
                         /\ UNCHANGED <<fRes, fCache>>
                    ELSE /\ fLocal' = [fLocal EXCEPT
                               ![r].initialRows = rows,
                               ![r].filteredData = filteredData,
                               ![r].responseData =
                                   ResponseData(SortedData(filteredData, fLocal[r].userRankInt),
                                                fLocal[r])]
                         /\ fPc' = [fPc EXCEPT ![r] = "cacheResponse"]
                         /\ fLog' = [fLog EXCEPT ![r] = Issue(Settle(@, "ok"), "cacheResponse")]
                         /\ UNCHANGED <<fRes, fCache>>
    /\ UNCHANGED <<fBody, estVars, predVars, aggVars, rankVars, classVars, anchorVars>>

\* lines 1704-1797
HistoryQueryReturns ==
    /\ \E r \in Reqs :
        /\ fPc[r] = "historyQuery"
        /\ \/ Catch(r)
           \/ /\ fLocal' = [fLocal EXCEPT
                    ![r].responseData =
                        ResponseData(SortedData(fLocal[r].filteredData, fLocal[r].userRankInt),
                                     fLocal[r])]
              /\ fPc' = [fPc EXCEPT ![r] = "cacheResponse"]
              /\ fLog' = [fLog EXCEPT ![r] = Issue(Settle(@, "ok"), "cacheResponse")]
              /\ UNCHANGED <<fRes, fCache>>
    /\ UNCHANGED <<fBody, estVars, predVars, aggVars, rankVars, classVars, anchorVars>>

\* lines 1797-1798
CacheResponseReturns ==
    /\ \E r \in Reqs : \E outcome \in {"notReady", "throws", "throwsWritten", "answers"} :
        /\ fPc[r] = "cacheResponse"
        /\ LET put == cacheResponse(outcome, fCache, fLocal[r].cacheKey, fLocal[r].responseData)
           IN  /\ fCache' = put.cache
               /\ IF put.thrown
                  THEN /\ Respond(r, 500, ErrorBody)
                       /\ fLog' = [fLog EXCEPT ![r] = Settle(@, "throws")]
                  ELSE /\ Respond(r, 200, fLocal[r].responseData)
                       /\ fLog' = [fLog EXCEPT ![r] =
                                     Settle(@, IF outcome = "answers" THEN "ok" ELSE outcome)]
               /\ fPc' = [fPc EXCEPT ![r] = "done"]
               /\ UNCHANGED fLocal
    /\ UNCHANGED <<fBody, estVars, predVars, aggVars, rankVars, classVars, anchorVars>>

(***************************************************************************)
(* The requests.  One request with any of the sample userRank strings, or  *)
(* two requests, both without userRank or both with the userRank "4000",   *)
(* each naming or omitting the year and the round; the round named is the  *)
(* latest one or the one before.  The two requests of a behaviour are      *)
(* interchangeable, so of the two ways to number them one is kept.         *)
(***************************************************************************)
MaxRankLen == 2
RankChars == {"0", "4", " ", "a"}
RankStrings ==
    UNION {[1..n -> RankChars] : n \in 0..MaxRankLen}
    \cup {<<"4", "0", "0", "0">>, <<"-", "4">>, <<" ", "4", "0", " ">>, <<"4", ".", "0">>}

Rank4000 == <<"4", "0", "0", "0">>

Bodies(userRanks) ==
    [userRank : userRanks, Year : {NULL, LatestYear},
     round : {NULL, RequestRound - 1, RequestRound}]

\* a numbering of the (year, round) choices of a body
BodyIndex(body) ==
    (IF body.Year = NULL THEN 0 ELSE 3)
        + (IF body.round = NULL THEN 1 ELSE IF body.round = RequestRound THEN 2 ELSE 3)

NoRequest == [userRank |-> Undefined, Year |-> NULL, round |-> NULL]

InitFilter ==
    /\ \/ /\ fBody \in {<<b, NoRequest>> : b \in Bodies(RankStrings \cup {Undefined})}
          /\ fPc = <<"start", "absent">>
       \/ /\ \E userRank \in {Undefined, Rank4000} :
                fBody \in {pair \in Bodies({userRank}) \X Bodies({userRank}) :
                              BodyIndex(pair[1]) <= BodyIndex(pair[2])}
          /\ fPc = <<"start", "start">>
    /\ fLocal = [r \in Reqs |-> InitLocal]
    /\ fRes = [r \in Reqs |-> <<>>]
    /\ fLog = [r \in Reqs |-> <<>>]
    /\ fCache = <<>>

NextFilter ==
    \/ ReceiveRequest
    \/ MaxYearReturns
    \/ MaxRoundReturns
    \/ CacheGetReturns
    \/ CandidateQueryReturns
    \/ HistoryQueryReturns
    \/ CacheResponseReturns

InitFilterHandler == InitEst /\ InitPredIdle /\ InitAggIdle /\ InitRankIdle /\ InitFilter /\ InitOthersIdle

SpecFilter == InitFilterHandler /\ [][NextFilter]_vars

StorageCalls == {"maxYear", "maxRound", "candidateQuery", "historyQuery"}

\* request r has made the call; Outcome is how the call ended
Called(r, call) == \E i \in 1..Len(fLog[r]) : fLog[r][i].call = call
Outcome(r, call) == fLog[r][CHOOSE i \in 1..Len(fLog[r]) : fLog[r][i].call = call].outcome

StorageFailed(r) == \E call \in StorageCalls : Called(r, call) /\ Outcome(r, call) = "throws"

\* the request has ended with the single response of this status
EndedWith(r, status) ==
    fPc[r] = "done" /\ Len(fRes[r]) = 1 /\ fRes[r][1].status = status

\* the userRank of the request is present (non-empty after trimming)
RankPresent(r) ==
    fBody[r].userRank # Undefined /\ Trim(fBody[r].userRank) # <<>>

\* the userRank is a string of digits that denotes an integer > 0
DenotesPositiveInteger(userRank) ==
    /\ userRank # Undefined /\ userRank # <<>>
    /\ \A i \in 1..Len(userRank) : userRank[i] \in Digits
    /\ \E i \in 1..Len(userRank) : userRank[i] # "0"

\* C13: a request whose userRank is present and is not a string of digits
\* denoting an integer > 0 is answered 400 without any storage query, cache
\* read or cache write; a request that makes such a call has no candidate
\* rank or a positive integer one.
C13_InvalidRankRejected ==
    \A r \in Reqs :
        /\ (fPc[r] \notin {"start", "absent"} /\ RankPresent(r)
              /\ ~DenotesPositiveInteger(fBody[r].userRank))
             => (EndedWith(r, 400) /\ fLog[r] = <<>>)
        /\ fLog[r] # <<>> =>
              \/ fLocal[r].userRankInt = NULL /\ ~RankPresent(r)
              \/ /\ DenotesPositiveInteger(fBody[r].userRank)
                 /\ fLocal[r].userRankInt \in Nat /\ fLocal[r].userRankInt > 0

\* " 40 " is not empty after trimming and is not a string of digits
C13_Witness ==
    /\ fBody[1].userRank = <<" ", "4", "0", " ">>
    /\ EndedWith(1, 400) /\ fLog[1] = <<>> /\ fCache = <<>>

\* rows holds each row of storage that matches the filters of the request,
\* with its category, exactly once
FetchedFromStorage(rows, local) ==
    LET matching == FilterMatching(local.userRankInt, local.Year, local.round)
    IN  /\ Len(rows) = Cardinality(matching)
        /\ {rows[i] : i \in 1..Len(rows)} = {WithCategory(row) : row \in matching}

\* data is the response computed from the rows storage returned to the
\* request with these locals
IsRecomputation(data, local) ==
    /\ FetchedFromStorage(local.filteredData, local)
    /\ data = ResponseData(SortedData(local.filteredData, local.userRankInt), local)

\* C14: a valid request none of whose storage queries failed, and which did
\* not find its key in the cache, ends with one 200 response that is a
\* recomputation from storage, whatever the cache calls did; a 500 response
\* is sent only after a storage query failed.
C14_CacheFailOpen ==
    \A r \in Reqs :
        /\ (fPc[r] = "done" /\ fLog[r] # <<>> /\ ~StorageFailed(r)) =>
              /\ EndedWith(r, 200)
              /\ Outcome(r, "getFromCache") # "hit" =>
                    IsRecomputation(fRes[r][1].body, fLocal[r])
        /\ (Len(fRes[r]) > 0 /\ fRes[r][1].status = 500) => StorageFailed(r)

\* the read threw and the write threw: the response is the two candidates
\* of rank 4000 and nothing is cached
C14_Witness ==
    /\ EndedWith(1, 200) /\ fLocal[1].userRankInt = 4000
    /\ Outcome(1, "getFromCache") = "throws"
    /\ Outcome(1, "cacheResponse") = "throws"
    /\ fRes[1][1].body.count = 3
    /\ fCache = <<>>

\* both requests missed the cache, recomputed and wrote the same key
BothRecomputed ==
    /\ \A r \in Reqs :
          /\ EndedWith(r, 200)
          /\ Outcome(r, "getFromCache") = "miss"
          /\ Outcome(r, "cacheResponse") = "ok"
    /\ CacheKey(fLocal[1]) = CacheKey(fLocal[2])

\* C15: two requests with the same normalized filters that both miss the
\* cache, recompute and write the key get equal responses, and the cached
\* value is that response.
C15_RacingRequestsAgree ==
    BothRecomputed =>
        /\ fRes[1][1].body = fRes[2][1].body
        /\ fCache[CacheKey(fLocal[1])] = fRes[1][1].body

(***************************************************************************)
(* The order of the ranker inside an anchor group.                         *)
(***************************************************************************)
\* category precedence IIT 1, NIT 2, IIIT 3, GFTI 4, UNKNOWN 5
StatedPrecedence(category) ==
    CASE category = "IIT" -> 1 [] category = "NIT" -> 2 [] category = "IIIT" -> 3
      [] category = "GFTI" -> 4 [] category = "UNKNOWN" -> 5

\* a null closing rank counts as +infinity
StatedClosing(row) == IF row.ClosingRank = NULL THEN Infinity ELSE row.ClosingRank

\* a comes strictly before b by category precedence, then closing rank,
\* then institute name
StatedBefore(a, b) ==
    LET pa == StatedPrecedence(a.instituteCategory)
        pb == StatedPrecedence(b.instituteCategory)
    IN  \/ pa < pb
        \/ pa = pb /\ StatedClosing(a) < StatedClosing(b)
        \/ pa = pb /\ StatedClosing(a) = StatedClosing(b)
                   /\ LocaleCompare(a.Institute, b.Institute) < 0

SameAnchorGroup(a, b) ==
    (StatedClosing(a) >= StepAnchor(rUserRank)) = (StatedClosing(b) >= StepAnchor(rUserRank))

\* C21: with a candidate rank, of two candidates of the same anchor group
\* the one with the lower category precedence comes first; with equal
\* category the one with the smaller closing rank; with equal closing rank
\* the one with the smaller institute name.
C21_OrderInsideGroup ==
    (rDone /\ rUserRank # NULL) =>
        \A i, j \in 1..Len(rOut) :
            (SameAnchorGroup(rOut[i], rOut[j]) /\ StatedBefore(rOut[i], rOut[j])) => i < j

\* rank 4000, Group 1: IIT Delhi at 3000, then IIT Bombay and IIT Delhi at
\* 3500 by name, though the query returned them in another order
C21_Witness ==
    /\ rDone /\ rUserRank = 4000 /\ Len(rOut) = 3
    /\ rOut[1].Institute = IITD /\ rOut[1].ClosingRank = 3000
    /\ rOut[2].Institute = IITB /\ rOut[2].ClosingRank = 3500
    /\ rOut[3].Institute = IITD /\ rOut[3].ClosingRank = 3500
    /\ rRows[1].Institute = IITD /\ rRows[1].ClosingRank = 3500

(***************************************************************************)
(* getInstituteType called on its own: on no value, on every string of at  *)
(* most MaxLabelLen characters of LabelChars, on the labels of the sample  *)
(* rows and on the names of NamedLabels.                                   *)
(***************************************************************************)
MaxLabelLen == 4

LabelChars == {"i", "I", "t", "T", "n", "N", " "}

ShortLabels == UNION {[1..n -> LabelChars] : n \in 0..MaxLabelLen}

NamedLabels ==
    {<<"G", "F", "T", "I">>,
     <<"g", "f", "t", "i">>,
     <<" ", "G", "f", "t", "i", " ">>,
     <<"I", "I", "E", "S", "T", ",", " ", "S", "h", "i", "b", "p", "u",
     "r">>,
     <<"I", "n", "d", "i", "a", "n", " ", "I", "n", "s", "t", "i", "t",
     "u", "t", "e", " ", "o", "f", " ", "I", "n", "f", "o", "r", "m", "a",
     "t", "i", "o", "n", " ", "T", "e", "c", "h", "n", "o", "l", "o", "g",
     "y", " ", "A", "l", "l", "a", "h", "a", "b", "a", "d">>,
     <<"D", "r", ".", " ", "B", " ", "R", " ", "A", "m", "b", "e", "d",
     "k", "a", "r", " ", "N", "a", "t", "i", "o", "n", "a", "l", " ", "I",
     "n", "s", "t", "i", "t", "u", "t", "e", " ", "o", "f", " ", "T", "e",
     "c", "h", "n", "o", "l", "o", "g", "y", ",", " ", "J", "a", "l", "a",
     "n", "d", "h", "a", "r">>,
     <<"N", "I", "T", " ", "C", "a", "m", "p", "u", "s", ",", " ", "I",
     "n", "d", "i", "a", "n", " ", "I", "n", "s", "t", "i", "t", "u", "t",
     "e", " ", "o", "f", " ", "T", "e", "c", "h", "n", "o", "l", "o", "g",
     "y", " ", "P", "a", "t", "n", "a">>,
     <<"U", "n", "i", "v", "e", "r", "s", "i", "t", "y", " ", "o", "f",
     " ", "H", "y", "d", "e", "r", "a", "b", "a", "d">>,
     <<" ", " ", "I", "n", "d", "i", "a", "n", " ", "I", "n", "s", "t",
     "i", "t", "u", "t", "e", " ", "o", "f", " ", "T", "e", "c", "h", "n",
     "o", "l", "o", "g", "y", " ", "B", "o", "m", "b", "a", "y">>,
     <<"I", "I", "I", "T", "D", "M", " ", "K", "a", "n", "c", "h", "e",
     "e", "p", "u", "r", "a", "m">>,
     <<"N", "i", "t", "t", "e", " ", "U", "n", "i", "v", "e", "r", "s",
     "i", "t", "y">>}

ClassLabels ==
    {Undefined} \cup ShortLabels \cup NamedLabels
        \cup {Characters(value) : value \in {"GFTI", IITB, IITD, NITT, PEC}}

InitClass == cValue \in ClassLabels /\ cType = "not called"

ClassifyLabel ==
    /\ cType = "not called"
    /\ cType' = getInstituteType(cValue)
    /\ UNCHANGED <<cValue, estVars, predVars, aggVars, rankVars, filterVars, anchorVars>>

NextClass == ClassifyLabel

InitClassifier ==
    InitEst /\ InitPredIdle /\ InitAggIdle /\ InitRankIdle /\ InitFilterIdle
        /\ InitClass /\ InitAnchorIdle

SpecClass == InitClassifier /\ [][NextClass]_vars

\* the label is absent or empty
NoLabel == cValue = Undefined \/ cValue = <<>>

\* the category the claim gives a non-empty label, compared without regard
\* to case: a short code yields itself; then a label containing the long
\* name of the IITs or starting with iit yields IIT, one containing one of
\* nitNames or starting with nit yields NIT, one containing the long name
\* of the IIITs or starting with iiit yields IIIT; every other one GFTI
StatedCategory(label, nitNames) ==
    LET folded == toLowerCase(label)
        Code(code) == folded = toLowerCase(code)
        Starts(prefix) == \E n \in 0..Len(folded) : SubSeq(folded, 1, n) = prefix
        Contains(name) ==
            \E m, n \in 0..Len(folded) : SubSeq(folded, m + 1, n) = name
    IN  CASE Code(<<"I", "I", "T">>) -> "IIT"
          [] Code(<<"N", "I", "T">>) -> "NIT"
          [] Code(<<"I", "I", "I", "T">>) -> "IIIT"
          [] Code(<<"G", "F", "T", "I">>) -> "GFTI"
          [] OTHER ->
                IF Contains(NameOfIIT) \/ Starts(<<"i", "i", "t">>) THEN "IIT"
                ELSE IF (\E name \in nitNames : Contains(name))
                        \/ Starts(<<"n", "i", "t">>) THEN "NIT"
                ELSE IF Contains(NameOfIIIT) \/ Starts(<<"i", "i", "i", "t">>)
                     THEN "IIIT"
                ELSE "GFTI"

\* C22 as stated: an empty or absent label yields UNKNOWN; the short codes
\* IIT, NIT, IIIT, GFTI in any case yield themselves; a label containing
\* the canonical long name or starting with iit / nit / iiit yields IIT /
\* NIT / IIIT; every other non-empty label yields GFTI.
C22_AsStated ==
    cType # "not called" =>
        cType = IF NoLabel THEN "UNKNOWN" ELSE StatedCategory(cValue, {NameOfNIT})

\* C22: as above, with the label compared after its surrounding white space
\* is removed and with 'iiest, shibpur' as a second name that yields NIT.
C22_TrimmedWithShibpur ==
    cType # "not called" =>
        cType = IF NoLabel THEN "UNKNOWN"
                ELSE StatedCategory(Trim(cValue), {NameOfNIT, NameOfShibpur})

\* 'IIEST, Shibpur' has been classified
C22_Witness ==
    /\ cType = "NIT"
    /\ cValue = <<"I", "I", "E", "S", "T", ",", " ", "S", "h", "i", "b",
                 "p", "u", "r">>

(***************************************************************************)
(* anchorRankForSort (lines 1739-1740) computed for two candidate ranks,   *)
(* the first not above the second.                                         *)
(***************************************************************************)
\* candidate ranks: small ones and the two ranks around every step
AnchorRanks ==
    {1, 2, 1000, 1001, 1002, 4000, 250000}
        \cup {StepTable[i][1] : i \in 1..Len(StepTable)}
        \cup {StepTable[i][1] + 1 : i \in 1..Len(StepTable)}

InitAnchor ==
    /\ nPrevUserRank \in AnchorRanks /\ nUserRank \in AnchorRanks
    /\ nPrevUserRank <= nUserRank
    /\ nPrevAnchorRank = NULL /\ nAnchorRank = NULL

AnchorOfSmaller ==
    /\ nPrevAnchorRank = NULL
    /\ nPrevAnchorRank' = AnchorRankForSort(nPrevUserRank)
    /\ UNCHANGED <<nUserRank, nPrevUserRank, nAnchorRank>>
    /\ UNCHANGED <<estVars, predVars, aggVars, rankVars, filterVars, classVars>>

AnchorOfLarger ==
    /\ nPrevAnchorRank # NULL /\ nAnchorRank = NULL
    /\ nAnchorRank' = AnchorRankForSort(nUserRank)
    /\ UNCHANGED <<nUserRank, nPrevUserRank, nPrevAnchorRank>>
    /\ UNCHANGED <<estVars, predVars, aggVars, rankVars, filterVars, classVars>>

NextAnchor == AnchorOfSmaller \/ AnchorOfLarger

InitAnchors ==
    InitEst /\ InitPredIdle /\ InitAggIdle /\ InitRankIdle /\ InitFilterIdle
        /\ InitClassIdle /\ InitAnchor

SpecAnchor == InitAnchors /\ [][NextAnchor]_vars

\* C30: the anchor rank is monotone in the candidate rank: for positive
\* candidate ranks r1 <= r2 the anchor of r1 is not above the anchor of r2.
C30_AnchorMonotone ==
    (nPrevAnchorRank # NULL /\ nAnchorRank # NULL) => nPrevAnchorRank <= nAnchorRank

(***************************************************************************)
(* The cache key of a request.                                             *)
(***************************************************************************)
HasKey(r) == fLocal[r].cacheKey # NoKey

\* the year and the round the request works with once both are resolved
Resolved(r) == <<fLocal[r].Year, fLocal[r].round>>

\* C23: the cache key is computed only after a missing year or round has
\* been resolved to the latest cycle; a request that omits year or round and
\* a request that names the resolved year and round, with the other filters
\* equal, use the same key; two requests that resolve to different
\* (year, round) never use the same key.
C23_KeyOfResolvedCycle ==
    /\ \A r \in Reqs :
          /\ HasKey(r) <=> Called(r, "getFromCache")
          /\ HasKey(r) =>
                /\ fLocal[r].Year # NULL /\ fLocal[r].round # NULL
                /\ fBody[r].Year = NULL =>
                      Called(r, "maxYear") /\ Outcome(r, "maxYear") = "ok"
                /\ fBody[r].round = NULL =>
                      Called(r, "maxRound") /\ Outcome(r, "maxRound") = "ok"
    /\ \A r1, r2 \in Reqs :
          (HasKey(r1) /\ HasKey(r2)) =>
              /\ ( /\ fBody[r1].userRank = fBody[r2].userRank
                   /\ fBody[r2].Year = fLocal[r1].Year
                   /\ fBody[r2].round = fLocal[r1].round )
                     => fLocal[r1].cacheKey = fLocal[r2].cacheKey
              /\ Resolved(r1) # Resolved(r2)
                     => fLocal[r1].cacheKey # fLocal[r2].cacheKey

\* one request omitted year and round, the other named the latest cycle,
\* and both have computed the same key
C23_Witness ==
    /\ fBody[1].Year = NULL /\ fBody[1].round = NULL
    /\ fBody[2].Year = LatestYear /\ fBody[2].round = RequestRound
    /\ HasKey(1) /\ HasKey(2)
    /\ fLocal[1].cacheKey = fLocal[2].cacheKey

(***************************************************************************)
(* The historical lookup of a request.                                     *)
(***************************************************************************)
CallIndexes(r, call) == {i \in 1..Len(fLog[r]) : fLog[r][i].call = call}

\* the candidate rows of the request, once the candidate query has returned
Candidates(r) == fLocal[r].filteredData

\* C24: within one request the historical lookup is issued at most once,
\* only after the candidate fetch has returned, only when a candidate rank
\* was supplied and the candidate set is not empty, and it names each
\* distinct ProgramKey of the candidate set exactly once.
C24_HistoricalLookupOnce ==
    \A r \in Reqs :
        /\ Cardinality(CallIndexes(r, "historyQuery")) <= 1
        /\ Called(r, "historyQuery") =>
              /\ \E i \in CallIndexes(r, "candidateQuery") :
                    /\ fLog[r][i].outcome = "ok"
                    /\ \A j \in CallIndexes(r, "historyQuery") : i < j
              /\ fLocal[r].userRankInt # NULL
              /\ Candidates(r) # <<>>
              /\ \A c \in 1..Len(Candidates(r)) :
                    Cardinality({i \in 1..Len(fLocal[r].historicalParams) :
                        fLocal[r].historicalParams[i] = ProgramFields(Candidates(r)[c])}) = 1

\* C28: candidates whose five-field keys differ in at least one field never
\* get the same historical group: every row of the group a candidate reads
\* is a row of the candidate's own program, whatever the field values are.
C28_GroupOfOwnProgram ==
    \A r \in Reqs :
        Called(r, "historyQuery") =>
            LET rows == HistoricalRows(fLocal[r].historicalParams)
            IN  \A c \in 1..Len(Candidates(r)) : \A n \in 1..Len(rows) :
                    ProgramKey(rows[n]) = ProgramKey(Candidates(r)[c])
                        => ProgramFields(rows[n]) = ProgramFields(Candidates(r)[c])

(***************************************************************************)
(* The responses of a request.  Every call the handler awaits settles:     *)
(* the promise is resolved or rejected.                                    *)
(***************************************************************************)
SpecFilterLive == SpecFilter /\ WF_vars(NextFilter)

Ended(r) == fPc[r] = "done"

\* what has been sent on res is right for where the request is: nothing
\* before the end, one response of status 400, 200 or 500 at the end
OneResponseAtEnd(r) ==
    /\ ~Ended(r) => fRes[r] = <<>>
    /\ Ended(r) => Len(fRes[r]) = 1 /\ fRes[r][1].status \in {400, 200, 500}

\* a failed storage query gives the response 500 and no cache write
FailureNotCached(r) ==
    StorageFailed(r) => EndedWith(r, 500) /\ ~Called(r, "cacheResponse")

\* C29: every request ends with exactly one response, of status 400, 200
\* or 500; when a storage query of the request fails the response is 500
\* and the request writes nothing to the cache, so no error response is
\* ever stored in the cache.
C29_OneResponseNoCachedError ==
    /\ [](\A r \in Reqs : OneResponseAtEnd(r) /\ FailureNotCached(r))
    /\ [](\A key \in DOMAIN fCache : fCache[key].success)
    /\ \A r \in Reqs : (fPc[r] = "start") ~> Ended(r)

\* a request has ended with 500 after its history query failed, while the
\* other one has stored its response
C29_Witness ==
    /\ Ended(1) /\ Called(1, "historyQuery") /\ Outcome(1, "historyQuery") = "throws"
    /\ fRes[1][1].status = 500
    /\ Ended(2) /\ fRes[2][1].status = 200 /\ DOMAIN fCache # {}

(***************************************************************************)
(* The candidate rows of a request and the list it returns.                *)
(***************************************************************************)
\* the request has answered 200 with a list it computed from its own fetch
AnsweredFromFetch(r) ==
    /\ EndedWith(r, 200)
    /\ Called(r, "candidateQuery") /\ Outcome(r, "candidateQuery") = "ok"

\* C25: classification, aggregation, prediction and ranking leave their
\* inputs unchanged; of these inputs, the candidate rows the query returned
\* have the same contents and order afterwards.  (A row that has no
\* instituteCategory property carries the empty string in that field.)
C25_CandidateRowsUnchanged ==
    \A r \in Reqs :
        (Called(r, "candidateQuery") /\ Outcome(r, "candidateQuery") = "ok")
            => fLocal[r].filteredData = fLocal[r].initialRows

\* the columns of a row of the candidate query
StoredColumns(row) ==
    <<row.Institute, row.Program, row.Quota, row.SeatType, row.Gender,
      row.Year, row.Round, row.CollegeType, row.ClosingRank>>

Occurrences(rows, columns) ==
    Cardinality({i \in 1..Len(rows) : StoredColumns(rows[i]) = columns})

\* C27: the list POST /filter returns is a permutation of the rows the
\* candidate query returned: no candidate is dropped, duplicated or merged,
\* and the reported count is the number of fetched rows.
C27_ListIsPermutationOfFetch ==
    \A r \in Reqs :
        AnsweredFromFetch(r) =>
            LET list == fRes[r][1].body.filterData
                rows == fLocal[r].initialRows
            IN  /\ fRes[r][1].body.count = Len(rows)
                /\ Len(list) = Len(rows)
                /\ \A i \in 1..Len(rows) :
                      Occurrences(list, StoredColumns(rows[i]))
                          = Occurrences(rows, StoredColumns(rows[i]))

\* a request with a candidate rank has returned two rows in the other order
\* than the one they were fetched in
C27_Witness ==
    /\ AnsweredFromFetch(1) /\ fLocal[1].userRankInt # NULL
    /\ Len(fLocal[1].initialRows) = 2
    /\ StoredColumns(fRes[1][1].body.filterData[1]) # StoredColumns(fLocal[1].initialRows[1])

(***************************************************************************)
(* Two runs of lines 1680-1771 on the same candidate rows, fetched in the  *)
(* same order, with a candidate rank, against two contents of the history  *)
(* table.  For every candidate the table holds the row of the current      *)
(* cycle and, in the variant "fallen", a row of the year before with twice *)
(* the closing rank.                                                       *)
(***************************************************************************)
HistoryVariants == {"single", "fallen"}

HistoryOfVariant(row, variant) ==
    <<[year |-> row.Year, round |-> row.Round, closeRank |-> row.ClosingRank]>>
    \o (IF variant = "fallen"
        THEN <<[year |-> row.Year - 1, round |-> row.Round,
                closeRank |-> 2 * row.ClosingRank]>>
        ELSE <<>>)

\* filteredData after the sort of line 1742, when the history query returns
\* for the i-th candidate the rows of variants[i]
RankedWithHistory(rows, userRankInt, variants) ==
    LET filteredData == Categorised(rows)
        historicalRows ==
            Flatten([i \in 1..Len(rows) |->
                RowsOfProgram(rows[i], HistoryOfVariant(rows[i], variants[i]))])
    IN  StableSort([i \in 1..Len(filteredData) |->
                       PredictedRow(filteredData[i], userRankInt, historicalRows)],
                   [kind |-> "anchor", anchor |-> AnchorRankForSort(userRankInt)])

TwoRunRanks == {4000, 10001}

\* the candidates: the All-India rows of one program
TwoRunRows(userRankInt) ==
    {row \in MatchingRows(userRankInt) : row.Program = CSE /\ row.Quota = "AI"}

InitTwoRuns ==
    /\ rUserRank \in TwoRunRanks
    /\ \E S \in SUBSET TwoRunRows(rUserRank) :
          /\ Cardinality(S) <= MaxRows
          /\ rRows \in FetchOrders(S, rUserRank)
    /\ rRowsB = rRows
    /\ rOut = <<>> /\ rOutB = <<>> /\ rDone = FALSE

RankTwoRuns ==
    /\ ~rDone
    /\ \E variantsA, variantsB \in [1..Len(rRows) -> HistoryVariants] :
          /\ rOut' = RankedWithHistory(rRows, rUserRank, variantsA)
          /\ rOutB' = RankedWithHistory(rRowsB, rUserRank, variantsB)
    /\ rDone' = TRUE
    /\ UNCHANGED <<rUserRank, rRows, rRowsB>>
    /\ UNCHANGED <<estVars, predVars, aggVars, filterVars, classVars, anchorVars>>

NextTwoRuns == RankTwoRuns

InitRunsOnHistories ==
    InitEst /\ InitPredIdle /\ InitAggIdle /\ InitTwoRuns /\ InitFilterIdle
        /\ InitOthersIdle

SpecTwoRuns == InitRunsOnHistories /\ [][NextTwoRuns]_vars

\* C26: with a candidate rank, two runs on the same candidates whose
\* historical data, and with it projectedRank, probability and confidence,
\* differ return the candidates in the same order.
C26_OrderIndependentOfHistory ==
    rDone =>
        /\ Len(rOut) = Len(rOutB)
        /\ \A i \in 1..Len(rOut) : StoredColumns(rOut[i]) = StoredColumns(rOutB[i])

\* three candidates, each predicted differently in the two runs, returned in
\* another order than they were fetched in
C26_Witness ==
    /\ rDone /\ Len(rOut) = 3
    /\ \A i \in 1..3 : rOut[i].probability # rOutB[i].probability
    /\ StoredColumns(rOut[1]) # StoredColumns(rRows[1])

====
